---- MODULE Spec2Model ----
(***************************************************************************)
(* Verification model of the disaster-response service core:               *)
(*   - the time-to-live Cache Store used by every service,                 *)
(*   - GeminiService.extractLocation (location resolver),                  *)
(*   - GeminiService.verifyImage (image authenticator),                    *)
(*   - SocialMediaService.detectPriorityAlerts and analyzeSentiment (feed  *)
(*     triage),                                                            *)
(*   - SocialMediaService.fetchSocialMediaReports with its tag filter.     *)
(* Time is counted in ticks of half an hour, so that the 0.5 h TTL of the  *)
(* social-media feed is one tick.  Confidences are counted in tenths.      *)
(***************************************************************************)
EXTENDS Integers, Sequences, FiniteSets, TLC

VARIABLES
    store,      \* the Cache Store: a set of CacheEntry records
    now,        \* the clock, in ticks
    last,       \* the most recent cache operation and what it returned
    lastSet,    \* per key, the most recent set on it (history)
    hfToken,    \* GeminiService.hfToken: is a credential configured
    calls,      \* the in-flight and finished service calls
    app         \* the App component of the browser, with the server it talks to

vars == <<store, now, last, lastSet, hfToken, calls, app>>

\* the services run without the App component
NoApp == [none |-> TRUE]

(***************************************************************************)
(* Bounds of the model.                                                    *)
(***************************************************************************)
MaxTime == 3
MaxTtl == 2
MaxCalls == 2

(***************************************************************************)
(* Cache Store (spec section 4.1).                                         *)
(***************************************************************************)
TicksPerHour == 2

DefaultTtlHours == 1

\* the no-value sentinel returned by get
Miss == [found |-> FALSE]

Hit(v) == [found |-> TRUE, value |-> v]

CacheEntry(k, v, exp) == [key |-> k, value |-> v, expiresAt |-> exp]

EntriesOf(s, k) == {e \in s : e.key = k}

\* mutant: the expiry forgets the time of the set
ExpiryTtlOnly(t, ttl) == ttl

\* set: the new expiry is now + ttl
Expiry(t, ttl) == t + ttl

\* mutant: the instant now = expiresAt still counts as live
IsExpiredStrict(t, e) == t > e.expiresAt

\* get: now >= expiresAt is a miss
IsExpired(t, e) == t >= e.expiresAt

\* mutant: the new value is stored under the expiry of the entry it replaces
StoreAfterSetMixed(s, t, k, v, ttl) ==
    IF EntriesOf(s, k) = {}
    THEN {e \in s : e.key # k} \cup {CacheEntry(k, v, Expiry(t, ttl))}
    ELSE {e \in s : e.key # k}
            \cup {CacheEntry(k, v, (CHOOSE e \in EntriesOf(s, k) : TRUE).expiresAt)}

\* mutant: set adds its entry and keeps what was there
StoreAfterSetKeep(s, t, k, v, ttl) == s \cup {CacheEntry(k, v, Expiry(t, ttl))}

\* set: unconditional overwrite of any prior entry of the key
StoreAfterSet(s, t, k, v, ttl) ==
    {e \in s : e.key # k} \cup {CacheEntry(k, v, Expiry(t, ttl))}

\* get: the value of a live entry of the key, else the sentinel
GetResult(s, t, k) ==
    IF \E e \in EntriesOf(s, k) : ~IsExpired(t, e)
    THEN Hit((CHOOSE e \in EntriesOf(s, k) : ~IsExpired(t, e)).value)
    ELSE Miss

\* get: a stale entry read is either left in place or physically removed
StoresAfterGet(s, t, k) ==
    {s, {e \in s : ~(e.key = k /\ IsExpired(t, e))}}

(***************************************************************************)
(* The cache on its own: arbitrary set, get and clock advances.            *)
(***************************************************************************)
Keys == {"k1", "k2"}
Values == {"v1", "v2"}
Ttls == 0..MaxTtl

NoOp == [op |-> "none", key |-> "", value |-> "", ttl |-> 0, ret |-> Miss, prior |-> {}]

NoSet == [done |-> FALSE]

InitCache ==
    /\ store = {}
    /\ now = 0
    /\ last = NoOp
    /\ lastSet = [k \in Keys |-> NoSet]
    /\ hfToken = FALSE
    /\ app = NoApp
    /\ calls = <<>>

CacheSet(k, v, ttl) ==
    /\ store' = StoreAfterSet(store, now, k, v, ttl)
    /\ last' = [op |-> "set", key |-> k, value |-> v, ttl |-> ttl, ret |-> Miss,
                prior |-> EntriesOf(store, k)]
    /\ lastSet' = [lastSet EXCEPT ![k] = [done |-> TRUE, value |-> v, at |-> now, ttl |-> ttl]]
    /\ UNCHANGED <<now, hfToken, calls, app>>

CacheGet(k) ==
    /\ store' \in StoresAfterGet(store, now, k)
    /\ last' = [op |-> "get", key |-> k, value |-> "", ttl |-> 0,
                ret |-> GetResult(store, now, k), prior |-> EntriesOf(store, k)]
    /\ UNCHANGED <<now, lastSet, hfToken, calls, app>>

Tick ==
    /\ now < MaxTime
    /\ now' = now + 1
    /\ last' = NoOp
    /\ UNCHANGED <<store, lastSet, hfToken, calls, app>>

NextCache ==
    \/ \E k \in Keys, v \in Values, ttl \in Ttls : CacheSet(k, v, ttl)
    \/ \E k \in Keys : CacheGet(k)
    \/ Tick

SpecCache == InitCache /\ [][NextCache]_vars

(***************************************************************************)
(* C1: after set(k, v, ttl) with no later set on k, a get(k) issued before *)
(* ttl has elapsed returns v, and a get(k) issued strictly after ttl has   *)
(* elapsed returns a miss.                                                 *)
(***************************************************************************)
C1_SetThenGet ==
    (last.op = "get" /\ lastSet[last.key].done) =>
        LET s == lastSet[last.key] IN
        /\ now < s.at + s.ttl => last.ret = Hit(s.value)
        /\ now > s.at + s.ttl => last.ret = Miss

\* a get that returned the value set some ticks before, at a clock other than 0
C1_Witness ==
    /\ last.op = "get"
    /\ lastSet[last.key].done
    /\ lastSet[last.key].at > 0
    /\ now > lastSet[last.key].at
    /\ now < lastSet[last.key].at + lastSet[last.key].ttl
    /\ last.ret = Hit(lastSet[last.key].value)

(***************************************************************************)
(* C2: get never returns the value of an entry with now >= expiresAt; the  *)
(* instant now = expiresAt is already a miss, whether or not the stale     *)
(* entry has been physically removed.                                      *)
(***************************************************************************)
C2_NeverStale ==
    last.op = "get" =>
        /\ last.ret.found =>
              \E e \in last.prior : e.value = last.ret.value /\ now < e.expiresAt
        /\ (\A e \in last.prior : now >= e.expiresAt) => last.ret = Miss

\* a get at the very instant now = expiresAt, the stale entry still stored
C2_Witness ==
    /\ last.op = "get"
    /\ last.ret = Miss
    /\ \E e \in store : e.key = last.key /\ e.expiresAt = now /\ now > 0

(***************************************************************************)
(* C3: set(k, v2, ttl2) on a key that has an entry, live or expired,       *)
(* replaces it: afterwards the store holds exactly one entry for k, with   *)
(* value v2 and expiresAt = time of the set + ttl2, whatever the previous  *)
(* entry was; the entries of other keys are unchanged.                     *)
(***************************************************************************)
C3_SetOverwrites ==
    [][(last'.op = "set" /\ EntriesOf(store, last'.key) # {}) =>
          /\ EntriesOf(store', last'.key) =
                {CacheEntry(last'.key, last'.value, now + last'.ttl)}
          /\ Cardinality(EntriesOf(store', last'.key)) = 1
          /\ {e \in store' : e.key # last'.key} = {e \in store : e.key # last'.key}]_vars

\* a set over an expired entry of another value, with another key stored
C3_Witness ==
    /\ last.op = "set"
    /\ \E p \in last.prior : p.value # last.value /\ p.expiresAt < now
    /\ \E e \in store : e.key # last.key
    /\ last.ttl > 0

(***************************************************************************)
(* Text.  A string is a sequence of one-character strings, so that the     *)
(* string operations of the services are computed, not assumed.            *)
(***************************************************************************)
UpperCase == <<"A","B","C","D","E","F","G","H","I","J","K","L","M",
               "N","O","P","Q","R","S","T","U","V","W","X","Y","Z">>
LowerCase == <<"a","b","c","d","e","f","g","h","i","j","k","l","m",
               "n","o","p","q","r","s","t","u","v","w","x","y","z">>
Digits == {"0","1","2","3","4","5","6","7","8","9"}
WhiteSpace == {" ", "\t", "\n"}

\* String.prototype.toLowerCase, one character
LowerChar(c) ==
    IF \E i \in 1..26 : UpperCase[i] = c
    THEN LowerCase[CHOOSE i \in 1..26 : UpperCase[i] = c]
    ELSE c

\* String.prototype.toLowerCase
ToLower(w) == [i \in 1..Len(w) |-> LowerChar(w[i])]

\* the regular expression class \w
IsWordChar(c) ==
    \/ \E i \in 1..26 : UpperCase[i] = c \/ LowerCase[i] = c
    \/ c \in Digits
    \/ c = "_"

\* String.prototype.trim
RECURSIVE TrimLeft(_)
TrimLeft(w) == IF w # <<>> /\ Head(w) \in WhiteSpace THEN TrimLeft(Tail(w)) ELSE w

RECURSIVE TrimRight(_)
TrimRight(w) ==
    IF w # <<>> /\ w[Len(w)] \in WhiteSpace THEN TrimRight(SubSeq(w, 1, Len(w) - 1)) ELSE w

Trim(w) == TrimRight(TrimLeft(w))

\* Array.prototype.join(' ')
RECURSIVE JoinSpace(_)
JoinSpace(ws) ==
    IF ws = <<>> THEN <<>>
    ELSE IF Len(ws) = 1 THEN ws[1]
    ELSE ws[1] \o <<" ">> \o JoinSpace(Tail(ws))

\* String.prototype.replace(/##/g, ''), matches taken left to right
RECURSIVE RemoveHashes(_)
RemoveHashes(w) ==
    IF Len(w) < 2 THEN w
    ELSE IF w[1] = "#" /\ w[2] = "#" THEN RemoveHashes(SubSeq(w, 3, Len(w)))
    ELSE <<w[1]>> \o RemoveHashes(Tail(w))

\* [...new Set(xs)]: duplicates removed, the first occurrence kept
RECURSIVE Dedupe(_)
Dedupe(ws) ==
    IF ws = <<>> THEN <<>>
    ELSE LET front == Dedupe(SubSeq(ws, 1, Len(ws) - 1))
             x == ws[Len(ws)]
         IN IF \E i \in 1..Len(front) : front[i] = x THEN front ELSE Append(front, x)

\* Array.prototype.flat of one level
RECURSIVE Flatten(_)
Flatten(wss) == IF wss = <<>> THEN <<>> ELSE Head(wss) \o Flatten(Tail(wss))

(***************************************************************************)
(* GeminiService.extractLocationWithNER: the entity list of the named-     *)
(* entity service, filtered, joined and cleaned.                           *)
(***************************************************************************)
\* a value that is null or undefined
Null == [has |-> FALSE, text |-> <<>>]

Str(w) == [has |-> TRUE, text |-> w]

\* JavaScript truthiness of a string-or-null
Truthy(x) == x.has /\ x.text # <<>>

Entity(g, w) == [entity_group |-> g, hasWord |-> TRUE, word |-> w]

\* an entity whose word field is missing
EntityNoWord(g) == [entity_group |-> g, hasWord |-> FALSE, word |-> <<>>]

PlaceWords == { <<"s","t","r","e","e","t">>, <<"a","v","e","n","u","e">>,
                <<"r","o","a","d">>, <<"p","a","r","k">>,
                <<"b","r","i","d","g","e">>, <<"c","e","n","t","e","r">> }

\* word.match(/\b(street|avenue|road|park|bridge|center)\b/i)
MatchesPlaceWord(w) ==
    \E i \in 1..Len(w), j \in 1..Len(w) :
        /\ i <= j
        /\ ToLower(SubSeq(w, i, j)) \in PlaceWords
        /\ (i = 1 \/ ~IsWordChar(w[i - 1]))
        /\ (j = Len(w) \/ ~IsWordChar(w[j + 1]))

\* the first filter: location-like, organization-like, or a place-word MISC
EntityKept(ent) ==
    \/ ent.entity_group = "LOC"
    \/ ent.entity_group = "ORG"
    \/ (ent.entity_group = "MISC" /\ MatchesPlaceWord(ent.word))

\* ent.word.match on a missing word is a TypeError
EntityThrows(ent) ==
    /\ ent.entity_group = "MISC"
    /\ ~ent.hasWord

\* the second filter: word && word !== '[CLS]' && word !== '[SEP]'
WordKept(ent) ==
    /\ ent.hasWord
    /\ ent.word # <<>>
    /\ ent.word # <<"[","C","L","S","]">>
    /\ ent.word # <<"[","S","E","P","]">>

RECURSIVE KeptWords(_)
KeptWords(ents) ==
    IF ents = <<>> THEN <<>>
    ELSE IF EntityKept(Head(ents)) /\ WordKept(Head(ents))
         THEN <<Head(ents).word>> \o KeptWords(Tail(ents))
         ELSE KeptWords(Tail(ents))

\* filter, map, filter, join(' '), replace(/##/g, ''), trim
NerLocations(ents) == Trim(RemoveHashes(JoinSpace(KeptWords(ents))))

\* what the named-entity service can answer to one request
NerError == [kind |-> "error", isArray |-> FALSE, items |-> <<>>]
NerTimeout == [kind |-> "timeout", isArray |-> FALSE, items |-> <<>>]
NerNotArray == [kind |-> "data", isArray |-> FALSE, items |-> <<>>]
NerData(ents) == [kind |-> "data", isArray |-> TRUE, items |-> ents]

\* the value extractLocationWithNER returns for an answer of the service:
\* a thrown error is caught and gives null, a non-array falls off the end
NerResult(resp) ==
    IF resp.kind # "data" THEN Null
    ELSE IF ~resp.isArray THEN Null
    ELSE IF \E i \in 1..Len(resp.items) : EntityThrows(resp.items[i]) THEN Null
    ELSE IF NerLocations(resp.items) = <<>> THEN Null
    ELSE Str(NerLocations(resp.items))

(***************************************************************************)
(* GeminiService.extractLocationWithPatterns.  A description carries the   *)
(* matches description.match(pattern) yields for each of the five pattern  *)
(* families, in family order; what the code does with them is computed.    *)
(***************************************************************************)
wIn == <<"i","n">>
wAt == <<"a","t">>
wNear == <<"n","e","a","r">>
wAround == <<"a","r","o","u","n","d">>
wThe == <<"T","h","e">>
wCentralPark == <<"C","e","n","t","r","a","l"," ","P","a","r","k">>
wAustinTX == <<"A","u","s","t","i","n",","," ","T","X">>
wUnknown == <<"U","n","k","n","o","w","n">>
wLocationFailed == <<"L","o","c","a","t","i","o","n"," ","e","x","t","r","a","c","t","i","o","n",
                     " ","f","a","i","l","e","d">>

LeadWords == <<wIn, wAt, wNear, wAround>>

StopWords == { <<"t","h","e">>, <<"a","n","d">>, <<"b","u","t">>, <<"f","o","r">>,
               <<"a","r","e">>, <<"w","a","s">>, <<"w","e","r","e">>, <<"b","e","e","n">>,
               <<"h","a","v","e">>, <<"h","a","s">>, <<"h","a","d">>, <<"w","i","l","l">>,
               <<"w","o","u","l","d">>, <<"c","o","u","l","d">>, <<"s","h","o","u","l","d">> }

\* does w start, case-insensitively, with lead word p and white space
HasLead(w, p) ==
    /\ Len(w) > Len(p)
    /\ ToLower(SubSeq(w, 1, Len(p))) = p
    /\ w[Len(p) + 1] \in WhiteSpace

\* match.replace(/^(?:in|at|near|around)\s+/i, '').trim()
StripLead(w) ==
    IF \E i \in 1..Len(LeadWords) : HasLead(w, LeadWords[i])
    THEN LET p == LeadWords[CHOOSE i \in 1..Len(LeadWords) : HasLead(w, LeadWords[i])]
         IN Trim(TrimLeft(SubSeq(w, Len(p) + 1, Len(w))))
    ELSE Trim(w)

\* loc.length > 2 && !loc.match(/^(the|and|...|should)$/i)
CandidateKept(loc) == Len(loc) > 2 /\ ToLower(loc) \notin StopWords

RECURSIVE FilterCandidates(_)
FilterCandidates(locs) ==
    IF locs = <<>> THEN <<>>
    ELSE IF CandidateKept(Head(locs)) THEN <<Head(locs)>> \o FilterCandidates(Tail(locs))
    ELSE FilterCandidates(Tail(locs))

\* "Flood near Central Park emergency shelter"
DescFlood == [head |-> "Flood near Central Park emergency she", rest |-> "lter"]

\* "Flood near Central Park emergency shelter, Austin, TX"
DescFloodAustin ==
    [head |-> "Flood near Central Park emergency she", rest |-> "lter, Austin, TX"]

\* "help"
DescHelp == [head |-> "help", rest |-> ""]

\* "at The"
DescAtThe == [head |-> "at The", rest |-> ""]

\* "in La, at The, near Oslo"
DescLaTheOslo == [head |-> "in La, at The, near Oslo", rest |-> ""]

Descriptions == {DescFlood, DescFloodAustin, DescHelp, DescAtThe, DescLaTheOslo}

\* description.match(pattern) for the five locationPatterns, in their order
PatternMatches(d) ==
    CASE d = DescFlood ->
           << <<>>, <<>>, <<wNear \o <<" ">> \o wCentralPark>>, <<>>,
              <<wNear \o <<" ">> \o wCentralPark>> >>
      [] d = DescFloodAustin ->
           << <<wAustinTX>>, <<>>, <<wNear \o <<" ">> \o wCentralPark>>, <<>>,
              <<wNear \o <<" ">> \o wCentralPark>> >>
      [] d = DescAtThe -> << <<>>, <<>>, <<>>, <<>>, <<wAt \o <<" ">> \o wThe>> >>
      [] d = DescLaTheOslo ->
           << <<>>, <<>>, <<>>, <<>>,
              << wIn \o <<" ","L","a">>, wAt \o <<" ">> \o wThe,
                 wNear \o <<" ","O","s","l","o">> >> >>
      [] OTHER -> << <<>>, <<>>, <<>>, <<>>, <<>> >>

\* the matches of all families, each stripped, in discovery order
Candidates(d) ==
    LET all == Flatten(PatternMatches(d)) IN [i \in 1..Len(all) |-> StripLead(all[i])]

\* mutant: the last surviving candidate is returned
extractLocationWithPatternsLast(d) ==
    LET filteredLocations == FilterCandidates(Dedupe(Candidates(d)))
    IN IF Len(filteredLocations) > 0
       THEN Str(filteredLocations[Len(filteredLocations)]) ELSE Null

extractLocationWithPatterns(d) ==
    LET filteredLocations == FilterCandidates(Dedupe(Candidates(d)))
    IN IF Len(filteredLocations) > 0 THEN Str(filteredLocations[1]) ELSE Null

\* the answer of the pattern fallback for each description
PatternAnswer == [d \in Descriptions |-> extractLocationWithPatterns(d)]

\* `location_extract_${Buffer.from(description).toString('base64').substring(0, 50)}`:
\* fifty base64 characters encode the leading 37 bytes (and half of the next)
\* of the text, which is all of the text that the key keeps
LocationCacheKey(d) == [prefix |-> "location_extract_", b64 |-> d.head]

(***************************************************************************)
(* GeminiService.extractLocation.  A call suspends at its awaits: the      *)
(* cache read, the request to the named-entity service, the cache write.   *)
(* Calls in flight interleave at these points.                             *)
(***************************************************************************)
Calls == 1..MaxCalls

DefaultTtl == DefaultTtlHours * TicksPerHour

NerResponses ==
    { NerError, NerTimeout, NerNotArray, NerData(<<>>),
      NerData(<<Entity("PER", <<"B","o","b">>)>>),
      NerData(<<Entity("LOC", <<"#","#">>)>>),
      NerData(<<Entity("LOC", wUnknown)>>),
      NerData(<<EntityNoWord("MISC")>>),
      NerData(<<Entity("MISC", <<"O","a","k"," ","P","a","r","k">>),
                Entity("LOC", <<"[","S","E","P","]">>),
                Entity("MISC", <<"P","a","r","k","s">>),
                Entity("ORG", <<"#","#","N","Y"," ">>)>>) }

\* what extractLocationWithNER can return when it asks the service, and whether the
\* request failed (error, timeout) or was answered with something that is no list
NerOutcomes ==
    {[failed |-> resp.kind # "data" \/ ~resp.isArray, value |-> NerResult(resp)] :
        resp \in NerResponses}

NoResult == [none |-> TRUE]

NoArg == [head |-> "", rest |-> ""]

IdleCall ==
    [pc |-> "idle", arg |-> NoArg, hit |-> FALSE, threw |-> FALSE, ner |-> Null,
     ranPatterns |-> FALSE, data |-> NoResult, result |-> NoResult, reqs |-> {},
     wrote |-> FALSE, src |-> 0, resp |-> NoResult]

\* a thrown error that reaches the caller of an operation
Raised(call) == [call EXCEPT !.pc = "raised"]

\* the top-level catch of extractLocation
LocCatch(call) ==
    [call EXCEPT !.pc = "done", !.threw = TRUE,
                 !.result = [location |-> wLocationFailed, confidence |-> 0,
                             method |-> "Error", error |-> "error.message"]]

\* mutant: a cached value is never taken
LocHitNever(got) == FALSE

\* if (cached): every value stored under a location key is a result object
LocHit(got) == got.found

\* mutant: the patterns are never tried
NeedsFallbackNever(x) == FALSE

\* !extractedLocation || extractedLocation === 'Unknown'
NeedsFallback(x) == ~Truthy(x) \/ x.text = wUnknown

\* result_data
ResultData(extractedLocation) ==
    [location |-> IF Truthy(extractedLocation) THEN extractedLocation.text ELSE wLocationFailed,
     confidence |-> IF Truthy(extractedLocation) THEN 8 ELSE 1,
     method |-> IF Truthy(extractedLocation) THEN "NER+Patterns" ELSE "Failed"]

\* mutant: only an answer is worth caching
LocCacheWriteAnswersOnly(s, t, k, data) ==
    IF data.confidence = 8 THEN StoreAfterSet(s, t, k, data, DefaultTtl) ELSE s

\* mutant: a live answer is not replaced by a result without an answer
LocCacheWriteKeepsAnswer(s, t, k, data) ==
    IF /\ data.confidence = 1
       /\ GetResult(s, t, k).found
       /\ GetResult(s, t, k).value.confidence = 8
    THEN s ELSE StoreAfterSet(s, t, k, data, DefaultTtl)

\* this.cache.set(cacheKey, result_data): the default TTL
LocCacheWrite(s, t, k, data) == StoreAfterSet(s, t, k, data, DefaultTtl)

LocStart(c, d) ==
    /\ calls[c].pc = "idle"
    /\ \A b \in Calls : b < c => calls[b].pc # "idle"
    /\ calls' = [calls EXCEPT ![c] = [IdleCall EXCEPT !.pc = "cacheGet", !.arg = d]]
    /\ UNCHANGED <<store, now, last, lastSet, hfToken, app>>

\* mutant: single flight, a miss takes over the result another call has computed for
\* the key and not yet written
LocCacheGetSingleFlight(c) ==
    /\ calls[c].pc = "cacheGet"
    /\ LET k == LocationCacheKey(calls[c].arg)
           got == GetResult(store, now, k)
           flying == {b \in Calls \ {c} : /\ calls[b].pc = "cacheSet"
                                          /\ LocationCacheKey(calls[b].arg) = k}
       IN /\ store' \in StoresAfterGet(store, now, k)
          /\ calls' = [calls EXCEPT ![c] =
                IF got.found
                THEN [calls[c] EXCEPT !.pc = "done", !.hit = TRUE, !.result = got.value,
                                      !.src = lastSet[k].by]
                ELSE IF flying # {}
                THEN [calls[c] EXCEPT !.pc = "done",
                                      !.result = calls[CHOOSE b \in flying : TRUE].data]
                ELSE [calls[c] EXCEPT !.pc = "ner"]]
    /\ UNCHANGED <<now, last, lastSet, hfToken, app>>

\* mutant: the error result of the handler is cached like any other result
LocCacheGetCachesError(c) ==
    /\ calls[c].pc = "cacheGet"
    /\ LET k == LocationCacheKey(calls[c].arg)
           got == GetResult(store, now, k)
       IN \/ /\ calls' = [calls EXCEPT ![c] = LocCatch(calls[c])]
             /\ store' = LocCacheWrite(store, now, k, LocCatch(calls[c]).result)
          \/ /\ store' \in StoresAfterGet(store, now, k)
             /\ calls' = [calls EXCEPT ![c] =
                   IF LocHit(got)
                   THEN [calls[c] EXCEPT !.pc = "done", !.hit = TRUE, !.result = got.value,
                                         !.src = lastSet[k].by]
                   ELSE [calls[c] EXCEPT !.pc = "ner"]]
    /\ UNCHANGED <<now, last, lastSet, hfToken, app>>

\* await this.cache.get(cacheKey) and what follows it up to the next await
LocCacheGet(c) ==
    /\ calls[c].pc = "cacheGet"
    /\ LET k == LocationCacheKey(calls[c].arg)
           got == GetResult(store, now, k)
       IN \/ /\ calls' = [calls EXCEPT ![c] = LocCatch(calls[c])]
             /\ UNCHANGED store
          \/ /\ store' \in StoresAfterGet(store, now, k)
             /\ calls' = [calls EXCEPT ![c] =
                   IF LocHit(got)
                   THEN [calls[c] EXCEPT !.pc = "done", !.hit = TRUE, !.result = got.value,
                                         !.src = lastSet[k].by]
                   ELSE [calls[c] EXCEPT !.pc = "ner"]]
    /\ UNCHANGED <<now, last, lastSet, hfToken, app>>

\* the continuation of extractLocation once extractLocationWithNER has returned x
LocAfterNer(call, x, asked) ==
    LET extractedLocation ==
            IF NeedsFallback(x) THEN PatternAnswer[call.arg] ELSE x
    IN [call EXCEPT !.pc = "cacheSet", !.ner = x,
                    !.reqs = IF asked THEN call.reqs \cup {"ner"} ELSE call.reqs,
                    !.ranPatterns = NeedsFallback(x),
                    !.data = ResultData(extractedLocation)]

\* await this.extractLocationWithNER(description), without a credential: no request
LocNerSkipped(c) ==
    /\ calls[c].pc = "ner"
    /\ ~hfToken
    /\ calls' = [calls EXCEPT ![c] = LocAfterNer(calls[c], Null, FALSE)]
    /\ UNCHANGED <<store, now, last, lastSet, hfToken, app>>

\* await this.extractLocationWithNER(description), with a credential: axios.post
LocNerCall(c, x) ==
    /\ calls[c].pc = "ner"
    /\ hfToken
    /\ calls' = [calls EXCEPT ![c] =
          [LocAfterNer(calls[c], x.value, TRUE) EXCEPT
              !.resp = [failed |-> x.failed]]]
    /\ UNCHANGED <<store, now, last, lastSet, hfToken, app>>

\* await this.cache.set(cacheKey, result_data), then return result_data
LocCacheSet(c) ==
    /\ calls[c].pc = "cacheSet"
    /\ LET k == LocationCacheKey(calls[c].arg) IN
          \/ /\ calls' = [calls EXCEPT ![c] = LocCatch(calls[c])]
             /\ UNCHANGED <<store, lastSet>>
          \/ /\ store' = LocCacheWrite(store, now, k, calls[c].data)
             /\ lastSet' = [lastSet EXCEPT ![k] =
                   [done |-> TRUE, value |-> calls[c].data, at |-> now,
                    ttl |-> DefaultTtl, by |-> c]]
             /\ calls' = [calls EXCEPT ![c] =
                   [calls[c] EXCEPT !.pc = "done", !.wrote = TRUE, !.result = calls[c].data]]
    /\ UNCHANGED <<now, last, hfToken, app>>

LocKeys == {LocationCacheKey(d) : d \in Descriptions}

Init ==
    /\ store = {}
    /\ now = 0
    /\ last = NoOp
    /\ lastSet = [k \in LocKeys |-> [done |-> FALSE, by |-> 0]]
    /\ hfToken \in BOOLEAN
    /\ app = NoApp
    /\ calls = [c \in Calls |-> IdleCall]

Next ==
    \/ \E c \in Calls, d \in Descriptions : LocStart(c, d)
    \/ \E c \in Calls : LocCacheGet(c)
    \/ \E c \in Calls : LocNerSkipped(c)
    \/ \E c \in Calls, x \in NerOutcomes : LocNerCall(c, x)
    \/ \E c \in Calls : LocCacheSet(c)
    \/ Tick

Spec == Init /\ [][Next]_vars

(***************************************************************************)
(* GeminiService.verifyImage, performImageVerification and the two         *)
(* analyses.  A call suspends at the cache read, the image fetch, the      *)
(* classification request, the header-only request and the cache write.    *)
(***************************************************************************)
\* String.prototype.startsWith
StartsWith(w, p) == Len(w) >= Len(p) /\ SubSeq(w, 1, Len(p)) = p

\* String.prototype.includes
Includes(w, p) == \E i \in 1..(Len(w) - Len(p) + 1) : SubSeq(w, i, i + Len(p) - 1) = p

wImageSlash == <<"i","m","a","g","e","/">>
wImagePng == wImageSlash \o <<"p","n","g">>
wTextHtml == <<"t","e","x","t","/","h","t","m","l">>
wFlood == <<"F","l","o","o","d">>
wCat == <<"c","a","t">>

disasterKeywords ==
    << <<"f","l","o","o","d">>, <<"f","i","r","e">>, <<"d","a","m","a","g","e">>,
       <<"d","e","s","t","r","u","c","t","i","o","n">>,
       <<"e","m","e","r","g","e","n","c","y">>, <<"d","i","s","a","s","t","e","r">> >>

\* "not a url": new URL throws
UrlNotAUrl == [head |-> "not a url", rest |-> "", parses |-> FALSE, protocol |-> ""]

\* "ftp://example.com/a.png"
UrlFtp == [head |-> "ftp://example.com/a.png", rest |-> "", parses |-> TRUE, protocol |-> "ftp:"]

\* "http://example.com/b.jpg"
UrlHttp == [head |-> "http://example.com/b.jpg", rest |-> "", parses |-> TRUE,
            protocol |-> "http:"]

\* "https://aaaaaaaaaaaaaaaaaaaaaaaaaaaaaaaa.example.com/a.png"
UrlHttps == [head |-> "https://aaaaaaaaaaaaaaaaaaaaaaaaaaaaa", rest |-> "aaa.example.com/a.png",
             parses |-> TRUE, protocol |-> "https:"]

\* "https://aaaaaaaaaaaaaaaaaaaaaaaaaaaaaaaa.example.com:99999999/a.png": the port
\* is out of range, new URL throws
UrlBadPort == [head |-> "https://aaaaaaaaaaaaaaaaaaaaaaaaaaaaa",
               rest |-> "aaa.example.com:99999999/a.png", parses |-> FALSE, protocol |-> ""]

Urls == {UrlNotAUrl, UrlFtp, UrlHttp, UrlHttps, UrlBadPort}

\* `image_verify_${Buffer.from(imageUrl).toString('base64').substring(0, 50)}`
ImageCacheKey(u) == [prefix |-> "image_verify_", b64 |-> u.head]

isValidImageUrl(url) == url.parses /\ url.protocol \in {"http:", "https:"}

\* what axios.get of the image can do
FetchResponses == {[kind |-> "ok", size |-> 4], [kind |-> "error", size |-> 0],
                   [kind |-> "timeout", size |-> 0]}

Label(l, sc) == [hasLabel |-> TRUE, label |-> l, score |-> sc]

\* a top result without a label field
NoLabel(sc) == [hasLabel |-> FALSE, label |-> <<>>, score |-> sc]

ClsError == [kind |-> "error", isArray |-> FALSE, items |-> <<>>]
ClsTimeout == [kind |-> "timeout", isArray |-> FALSE, items |-> <<>>]
ClsNotArray == [kind |-> "data", isArray |-> FALSE, items |-> <<>>]
ClsData(items) == [kind |-> "data", isArray |-> TRUE, items |-> items]

\* what axios.post to the classification service can do; the score is whatever
\* number the service sends, 12 being a score of 1.2
ClassifyResponses ==
    { ClsError, ClsTimeout, ClsNotArray, ClsData(<<>>),
      ClsData(<<Label(wCat, 9), Label(wFlood, 1)>>),
      ClsData(<<Label(wFlood, 3), Label(wCat, 2)>>),
      ClsData(<<NoLabel(5)>>),
      ClsData(<<Label(wCat, 12)>>) }

Header(w) == [has |-> TRUE, text |-> w]

HeadOk(ct, cl) == [kind |-> "ok", contentType |-> ct, contentLength |-> cl]
HeadError == [kind |-> "error", contentType |-> Null, contentLength |-> Null]
HeadTimeout == [kind |-> "timeout", contentType |-> Null, contentLength |-> Null]

\* what axios.head can do
HeadResponses ==
    { HeadError, HeadTimeout,
      HeadOk(Header(wImagePng), Header(<<"4","2">>)),
      HeadOk(Header(wImagePng), Null),
      HeadOk(Header(wTextHtml), Header(<<"7">>)),
      HeadOk(Null, Null) }

InvalidUrlResult ==
    [status |-> "invalid", analysis |-> <<"Invalid image URL provided">>, confidence |-> 0,
     details |-> [reason |-> "Invalid URL format"]]

\* the catch of performImageVerification
AnalysisFailed(message) ==
    [status |-> "error", analysis |-> <<"Image analysis failed: ", message>>, confidence |-> 0,
     details |-> [error |-> message]]

\* mutant: the label is compared as sent
isDisasterRelatedCaseSensitive(topResult) ==
    \E i \in 1..Len(disasterKeywords) : Includes(topResult.label, disasterKeywords[i])

isDisasterRelated(topResult) ==
    \E i \in 1..Len(disasterKeywords) : Includes(ToLower(topResult.label), disasterKeywords[i])

\* analyzeImageWithHuggingFace once both requests have answered
HuggingFaceResult(size, resp, t) ==
    IF resp.kind # "data"
    THEN AnalysisFailed("Hugging Face analysis failed")
    ELSE IF resp.isArray /\ Len(resp.items) > 0
    THEN LET topResult == resp.items[1] IN
         IF ~topResult.hasLabel
         THEN AnalysisFailed("Hugging Face analysis failed")
         ELSE [status |-> IF isDisasterRelated(topResult) THEN "authentic" ELSE "analyzed",
               analysis |-> IF isDisasterRelated(topResult)
                            THEN <<"Image classification: ", topResult.label, topResult.score,
                                   " - Appears to be disaster-related content">>
                            ELSE <<"Image classification: ", topResult.label, topResult.score>>,
               confidence |-> topResult.score,
               details |-> [raw_analysis |-> resp.items, image_size |-> size, timestamp |-> t]]
    ELSE [status |-> "analyzed", analysis |-> <<"Image analyzed successfully">>,
          confidence |-> 7,
          details |-> [raw_analysis |-> resp.items, image_size |-> size, timestamp |-> t]]

\* mutant: a missing content-type passes the check
BasicResultLenient(resp) ==
    IF resp.kind # "ok"
    THEN AnalysisFailed("Basic image validation failed")
    ELSE IF Truthy(resp.contentType) /\ ~StartsWith(resp.contentType.text, wImageSlash)
    THEN [status |-> "invalid", analysis |-> <<"URL does not point to a valid image">>,
          confidence |-> 0, details |-> [content_type |-> resp.contentType]]
    ELSE [status |-> "basic_check",
          analysis |-> <<"Image URL validated", resp.contentType, resp.contentLength>>,
          confidence |-> 5,
          details |-> [content_type |-> resp.contentType,
                       content_length |-> resp.contentLength,
                       method |-> "basic_validation"]]

\* analyzeImageBasic once the header-only request has answered
BasicResult(resp) ==
    IF resp.kind # "ok"
    THEN AnalysisFailed("Basic image validation failed")
    ELSE IF ~Truthy(resp.contentType) \/ ~StartsWith(resp.contentType.text, wImageSlash)
    THEN [status |-> "invalid", analysis |-> <<"URL does not point to a valid image">>,
          confidence |-> 0, details |-> [content_type |-> resp.contentType]]
    ELSE [status |-> "basic_check",
          analysis |-> <<"Image URL validated", resp.contentType, resp.contentLength>>,
          confidence |-> 5,
          details |-> [content_type |-> resp.contentType,
                       content_length |-> resp.contentLength,
                       method |-> "basic_validation"]]

NoUrl == [head |-> "", rest |-> "", parses |-> FALSE, protocol |-> ""]

IdleImageCall == [IdleCall EXCEPT !.arg = NoUrl]

\* mutant: the handler logs and rethrows
ImgCatchRethrow(call, t) == Raised(call)

\* the top-level catch of verifyImage
ImgCatch(call, t) ==
    [call EXCEPT !.pc = "done", !.threw = TRUE,
                 !.result = [status |-> "error",
                             analysis |-> <<"Image verification failed due to technical error">>,
                             confidence |-> 0,
                             details |-> [error |-> "error.message", timestamp |-> t]]]

\* if (cached): every value stored under an image key is a result object
ImgHit(got) == got.found

\* mutant: the header-only check whatever the credential
AfterImgMissBasicOnly(call, token) ==
    IF ~isValidImageUrl(call.arg)
    THEN [call EXCEPT !.pc = "cacheSet", !.data = InvalidUrlResult]
    ELSE [call EXCEPT !.pc = "head"]

\* performImageVerification up to its first await
AfterImgMiss(call, token) ==
    IF ~isValidImageUrl(call.arg)
    THEN [call EXCEPT !.pc = "cacheSet", !.data = InvalidUrlResult]
    ELSE IF token THEN [call EXCEPT !.pc = "fetch"]
    ELSE [call EXCEPT !.pc = "head"]

ImgStart(c, u) ==
    /\ calls[c].pc = "idle"
    /\ \A b \in Calls : b < c => calls[b].pc # "idle"
    /\ calls' = [calls EXCEPT ![c] = [IdleImageCall EXCEPT !.pc = "cacheGet", !.arg = u]]
    /\ UNCHANGED <<store, now, last, lastSet, hfToken, app>>

\* await this.cache.get(cacheKey) and what follows it up to the next await
ImgCacheGet(c) ==
    /\ calls[c].pc = "cacheGet"
    /\ LET k == ImageCacheKey(calls[c].arg)
           got == GetResult(store, now, k)
       IN \/ /\ calls' = [calls EXCEPT ![c] = ImgCatch(calls[c], now)]
             /\ UNCHANGED store
          \/ /\ store' \in StoresAfterGet(store, now, k)
             /\ calls' = [calls EXCEPT ![c] =
                   IF ImgHit(got)
                   THEN [calls[c] EXCEPT !.pc = "done", !.hit = TRUE, !.result = got.value,
                                         !.src = lastSet[k].by]
                   ELSE AfterImgMiss(calls[c], hfToken)]
    /\ UNCHANGED <<now, last, lastSet, hfToken, app>>

\* await axios.get(imageUrl, ...)
ImgFetch(c, resp) ==
    /\ calls[c].pc = "fetch"
    /\ calls' = [calls EXCEPT ![c] =
          IF resp.kind = "ok"
          THEN [calls[c] EXCEPT !.pc = "classify", !.reqs = @ \cup {"get"},
                                !.resp = resp, !.data = [size |-> resp.size]]
          ELSE [calls[c] EXCEPT !.pc = "cacheSet", !.reqs = @ \cup {"get"},
                                !.resp = resp,
                                !.data = AnalysisFailed("Hugging Face analysis failed")]]
    /\ UNCHANGED <<store, now, last, lastSet, hfToken, app>>

\* await axios.post(<image model>, imageResp.data, ...)
ImgClassify(c, resp) ==
    /\ calls[c].pc = "classify"
    /\ calls' = [calls EXCEPT ![c] =
          [calls[c] EXCEPT !.pc = "cacheSet", !.reqs = @ \cup {"post"}, !.resp = resp,
                           !.data = HuggingFaceResult(calls[c].data.size, resp, now)]]
    /\ UNCHANGED <<store, now, last, lastSet, hfToken, app>>

\* await axios.head(imageUrl, ...)
ImgHead(c, resp) ==
    /\ calls[c].pc = "head"
    /\ calls' = [calls EXCEPT ![c] =
          [calls[c] EXCEPT !.pc = "cacheSet", !.reqs = @ \cup {"head"}, !.resp = resp,
                           !.data = BasicResult(resp)]]
    /\ UNCHANGED <<store, now, last, lastSet, hfToken, app>>

\* mutant: an error result is not worth caching
ImgCacheWriteNoErrors(s, t, k, data) ==
    IF data.status = "error" THEN s ELSE StoreAfterSet(s, t, k, data, DefaultTtl)

\* this.cache.set(cacheKey, verificationResult): the default TTL
ImgCacheWrite(s, t, k, data) == StoreAfterSet(s, t, k, data, DefaultTtl)

\* await this.cache.set(cacheKey, verificationResult), then return it
ImgCacheSet(c) ==
    /\ calls[c].pc = "cacheSet"
    /\ LET k == ImageCacheKey(calls[c].arg) IN
          \/ /\ calls' = [calls EXCEPT ![c] = ImgCatch(calls[c], now)]
             /\ UNCHANGED <<store, lastSet>>
          \/ /\ store' = ImgCacheWrite(store, now, k, calls[c].data)
             /\ lastSet' = [lastSet EXCEPT ![k] =
                   [done |-> TRUE, value |-> calls[c].data, at |-> now,
                    ttl |-> DefaultTtl, by |-> c]]
             /\ calls' = [calls EXCEPT ![c] =
                   [calls[c] EXCEPT !.pc = "done", !.wrote = TRUE, !.result = calls[c].data]]
    /\ UNCHANGED <<now, last, hfToken, app>>

ImgKeys == {ImageCacheKey(u) : u \in Urls}

InitImage ==
    /\ store = {}
    /\ now = 0
    /\ last = NoOp
    /\ lastSet = [k \in ImgKeys |-> [done |-> FALSE, by |-> 0]]
    /\ hfToken \in BOOLEAN
    /\ app = NoApp
    /\ calls = [c \in Calls |-> IdleImageCall]

NextImage ==
    \/ \E c \in Calls, u \in Urls : ImgStart(c, u)
    \/ \E c \in Calls : ImgCacheGet(c)
    \/ \E c \in Calls, resp \in FetchResponses : ImgFetch(c, resp)
    \/ \E c \in Calls, resp \in ClassifyResponses : ImgClassify(c, resp)
    \/ \E c \in Calls, resp \in HeadResponses : ImgHead(c, resp)
    \/ \E c \in Calls : ImgCacheSet(c)
    \/ Tick

SpecImage == InitImage /\ [][NextImage]_vars

(***************************************************************************)
(* Properties of extractLocation.                                          *)
(***************************************************************************)
MethodEnum == {"NER+Patterns", "PATTERNS_ONLY", "Failed"}

\* an ExtractionResult: a location text, a confidence in [0,1], a method of the enum
WellFormedExtraction(r) ==
    /\ {"location", "confidence", "method"} \subseteq DOMAIN r
    /\ Len(r.location) > 0
    /\ r.confidence \in 0..10
    /\ r.method \in MethodEnum

HasLiveEntry(k) == \E e \in store : e.key = k /\ now < e.expiresAt

LiveValue(k) == (CHOOSE e \in store : e.key = k /\ now < e.expiresAt).value

\* the named-entity step gave the answer of the call
NerAnswered(call) == Truthy(call.ner) /\ call.ner.text # wUnknown

(***************************************************************************)
(* C4: extractLocation never raises to its caller: whatever the cache      *)
(* reads and writes and the NER call do, the call returns a well-formed    *)
(* ExtractionResult, and an unexpected exception yields method FAILED with *)
(* confidence 0.                                                           *)
(***************************************************************************)
C4_NeverRaisesFailedOnError ==
    \A c \in Calls :
        /\ calls[c].pc # "raised"
        /\ calls[c].pc = "done" => WellFormedExtraction(calls[c].result)
        /\ (calls[c].pc = "done" /\ calls[c].threw) =>
              (calls[c].result.method = "Failed" /\ calls[c].result.confidence = 0)

(***************************************************************************)
(* C6: without a credential, extractLocation never issues the NER network  *)
(* call, and the method of every result it returns is never                *)
(* NER_AND_PATTERNS.                                                       *)
(***************************************************************************)
C6_NoCredentialNoNer ==
    ~hfToken =>
        \A c \in Calls :
            /\ "ner" \notin calls[c].reqs
            /\ calls[c].pc = "done" => calls[c].result.method # "NER+Patterns"

(***************************************************************************)
(* C7: on a cache miss, a non-empty answer yields confidence 0.8 with      *)
(* method NER_AND_PATTERNS if the NER step produced it and PATTERNS_ONLY   *)
(* if the pattern fallback produced it; no answer from either step yields  *)
(* confidence 0.1 with method FAILED; confidence 0 with method FAILED only *)
(* on an outright error.                                                   *)
(***************************************************************************)
C7_ConfidencePolicy ==
    \A c \in Calls :
        (calls[c].pc = "done" /\ ~calls[c].hit) =>
            LET r == calls[c].result
                byPatterns == Truthy(PatternAnswer[calls[c].arg])
            IN /\ (~calls[c].threw /\ NerAnswered(calls[c])) =>
                      (r.confidence = 8 /\ r.method = "NER+Patterns")
               /\ (~calls[c].threw /\ ~NerAnswered(calls[c]) /\ byPatterns) =>
                      (r.confidence = 8 /\ r.method = "PATTERNS_ONLY")
               /\ (~calls[c].threw /\ ~NerAnswered(calls[c]) /\ ~byPatterns) =>
                      (r.confidence = 1 /\ r.method = "Failed")
               /\ r.confidence = 0 => calls[c].threw

(***************************************************************************)
(* C8: when the cache holds a live entry for the key of the description,   *)
(* extractLocation returns the cached result unchanged, with no NER call,  *)
(* no pattern evaluation and no cache write (the read having returned).    *)
(***************************************************************************)
C8_HitReturnsCached ==
    [][\A c \in Calls :
          LET k == LocationCacheKey(calls[c].arg) IN
          (/\ calls[c].pc = "cacheGet"
           /\ calls'[c].pc # "cacheGet"
           /\ ~calls'[c].threw
           /\ HasLiveEntry(k)) =>
              /\ calls'[c].pc = "done"
              /\ calls'[c].result = LiveValue(k)
              /\ calls'[c].reqs = {}
              /\ ~calls'[c].ranPatterns
              /\ ~calls'[c].wrote
              /\ store' = store
              /\ lastSet' = lastSet]_vars

\* with a credential, a call answered from an entry another call stored earlier
C8_Witness ==
    \E c \in Calls :
        /\ hfToken
        /\ calls[c].pc = "done"
        /\ calls[c].hit
        /\ calls[c].result.confidence = 8
        /\ calls[c].src # c
        /\ now > 0

(***************************************************************************)
(* C9: a miss that completes without an unexpected exception writes the    *)
(* final result, a no-answer FAILED result with confidence 0.1 included,   *)
(* under the key of the description before it returns; a second call with  *)
(* the same description before that entry expires returns an equal result  *)
(* without calling the NER service.                                        *)
(***************************************************************************)
C9_MissWritesThenHit ==
    [][\A c \in Calls :
          LET k == LocationCacheKey(calls[c].arg) IN
          /\ (calls[c].pc = "cacheSet" /\ calls'[c].pc = "done" /\ ~calls'[c].threw) =>
                /\ calls'[c].result = calls[c].data
                /\ CacheEntry(k, calls'[c].result, now + DefaultTtl) \in store'
          /\ (calls'[c].pc = "done" /\ ~calls'[c].hit /\ ~calls'[c].threw) => calls'[c].wrote
          /\ \A c1 \in Calls :
                (/\ calls[c].pc = "cacheGet"
                 /\ calls'[c].pc # "cacheGet"
                 /\ ~calls'[c].threw
                 /\ lastSet[k].by = c1
                 /\ calls[c1].arg = calls[c].arg
                 /\ now < lastSet[k].at + DefaultTtl) =>
                    /\ calls'[c].pc = "done"
                    /\ calls'[c].result = calls[c1].result
                    /\ calls'[c].reqs = {}]_vars

\* with a credential, a second call that got the cached no-answer result of the first
C9_Witness ==
    \E c \in Calls :
        /\ hfToken
        /\ calls[c].pc = "done"
        /\ calls[c].hit
        /\ calls[c].src \in Calls \ {c}
        /\ calls[calls[c].src].arg = calls[c].arg
        /\ calls[calls[c].src].wrote
        /\ calls[c].result = calls[calls[c].src].result
        /\ calls[c].result.method = "Failed"
        /\ calls[c].result.confidence = 1
        /\ calls[c].reqs = {}

(***************************************************************************)
(* Properties of verifyImage.                                              *)
(***************************************************************************)
StatusEnum == {"invalid", "basic_check", "analyzed", "authentic", "error"}

\* a VerificationResult: status, analysis, confidence and details, the status of the enum
WellFormedVerification(r) ==
    /\ DOMAIN r = {"status", "analysis", "confidence", "details"}
    /\ r.status \in StatusEnum
    /\ Len(r.analysis) > 0
    /\ r.confidence \in Int

C10_InvalidUrlIsInvalid ==
    \A c \in Calls :
        (calls[c].pc = "done" /\ ~calls[c].threw
            /\ ~(calls[c].arg.parses /\ calls[c].arg.protocol \in {"http:", "https:"})) =>
                /\ calls[c].result.status = "invalid"
                /\ calls[c].result.confidence = 0
                /\ calls[c].reqs = {}

\* a call that read a miss: it is past its cache read and was not answered from the cache
\* nor by the handler of a failed read
ImgMissed(call) ==
    \/ call.pc \in {"fetch", "classify", "head", "cacheSet"}
    \/ call.pc = "done" /\ ~call.hit /\ call.data # NoResult

\* the analysis of the call is over: its result is computed, written or not yet
ImgComputed(call) == ImgMissed(call) /\ call.pc \in {"cacheSet", "done"}

(***************************************************************************)
(* C11: for a valid URL on a cache miss the credential alone chooses the   *)
(* path: with a credential the call fetches the image, never issues the    *)
(* header-only request and never returns BASIC_CHECK; without one it       *)
(* issues the header-only request alone, never fetches or classifies and   *)
(* never returns ANALYZED or AUTHENTIC.                                    *)
(***************************************************************************)
C11_CredentialChoosesPath ==
    \A c \in Calls :
        (ImgMissed(calls[c]) /\ isValidImageUrl(calls[c].arg)) =>
            /\ hfToken =>
                  /\ calls[c].pc # "head"
                  /\ "head" \notin calls[c].reqs
                  /\ ImgComputed(calls[c]) => "get" \in calls[c].reqs
                  /\ calls[c].pc = "done" => calls[c].result.status # "basic_check"
            /\ ~hfToken =>
                  /\ calls[c].pc \notin {"fetch", "classify"}
                  /\ calls[c].reqs \cap {"get", "post"} = {}
                  /\ ImgComputed(calls[c]) => calls[c].reqs = {"head"}
                  /\ calls[c].pc = "done" =>
                        calls[c].result.status \notin {"analyzed", "authentic"}

\* with a credential: one call classified its image, another failed to fetch it
C11_Witness ==
    \E c, b \in Calls :
        /\ hfToken
        /\ isValidImageUrl(calls[c].arg) /\ isValidImageUrl(calls[b].arg)
        /\ calls[c].pc = "done" /\ ~calls[c].hit /\ ~calls[c].threw
        /\ calls[c].reqs = {"get", "post"}
        /\ calls[c].result.status = "authentic"
        /\ calls[b].pc = "done" /\ ~calls[b].hit /\ ~calls[b].threw
        /\ calls[b].reqs = {"get"}

(***************************************************************************)
(* C12: any failure of the advanced analysis (the image fetch fails or     *)
(* times out, the classification request fails or times out, or its answer *)
(* is not a non-empty ranked list) gives status ERROR with confidence 0,   *)
(* and the header-only request is never issued afterwards.                 *)
(***************************************************************************)
C12_AdvancedFailureIsError ==
    \A c \in Calls :
        (hfToken /\ ImgComputed(calls[c]) /\ isValidImageUrl(calls[c].arg)) =>
            LET resp == calls[c].resp
                failed == \/ resp.kind # "data"
                          \/ ~(resp.isArray /\ Len(resp.items) > 0)
            IN /\ failed => (calls[c].data.status = "error" /\ calls[c].data.confidence = 0)
               /\ "head" \notin calls[c].reqs

(***************************************************************************)
(* C13: when the classification answers a non-empty ranked list, the       *)
(* confidence of the result is the score of the first label and the status *)
(* is AUTHENTIC exactly when the text of the first label contains, in any  *)
(* letter case, one of flood, fire, damage, destruction, emergency,        *)
(* disaster, and ANALYZED otherwise; the labels after the first play no    *)
(* part.                                                                   *)
(***************************************************************************)
C13_TopLabelDecides ==
    \A c \in Calls :
        (/\ hfToken /\ ImgComputed(calls[c]) /\ isValidImageUrl(calls[c].arg)
         /\ calls[c].resp.kind = "data" /\ calls[c].resp.isArray
         /\ Len(calls[c].resp.items) > 0 /\ calls[c].resp.items[1].hasLabel) =>
            LET top == calls[c].resp.items[1]
                vocabulary == \E i \in 1..Len(disasterKeywords) :
                                  Includes(ToLower(top.label), disasterKeywords[i])
            IN /\ calls[c].data.confidence = top.score
               /\ calls[c].data.status = IF vocabulary THEN "authentic" ELSE "analyzed"

\* "Flood" on top gives AUTHENTIC with its score; "flood" in second place gives ANALYZED
\* with the score of the first label
C13_Witness ==
    \E c, b \in Calls :
        /\ calls[c].pc = "done" /\ ~calls[c].hit /\ ~calls[c].threw
        /\ calls[c].resp = ClsData(<<Label(wFlood, 3), Label(wCat, 2)>>)
        /\ calls[c].result.status = "authentic" /\ calls[c].result.confidence = 3
        /\ calls[b].pc = "done" /\ ~calls[b].hit /\ ~calls[b].threw
        /\ calls[b].resp = ClsData(<<Label(wCat, 9), Label(wFlood, 1)>>)
        /\ calls[b].result.status = "analyzed" /\ calls[b].result.confidence = 9

(***************************************************************************)
(* C14: the basic check is decided by the header-only request: a           *)
(* content-type that begins with image/ gives BASIC_CHECK with confidence  *)
(* 0.5 and details carrying the content-type and the content-length; a     *)
(* missing or other content-type gives INVALID with confidence 0; a failed *)
(* request gives ERROR with confidence 0.                                  *)
(***************************************************************************)
C14_BasicCheckOutcome ==
    \A c \in Calls :
        (~hfToken /\ ImgComputed(calls[c]) /\ isValidImageUrl(calls[c].arg)) =>
            LET resp == calls[c].resp
                r == calls[c].data
                image == /\ resp.kind = "ok"
                         /\ resp.contentType.has
                         /\ Len(resp.contentType.text) >= 6
                         /\ SubSeq(resp.contentType.text, 1, 6) = <<"i","m","a","g","e","/">>
            IN /\ image =>
                     /\ r.status = "basic_check" /\ r.confidence = 5
                     /\ r.details.content_type = resp.contentType
                     /\ r.details.content_length = resp.contentLength
               /\ (resp.kind = "ok" /\ ~image) => (r.status = "invalid" /\ r.confidence = 0)
               /\ resp.kind # "ok" => (r.status = "error" /\ r.confidence = 0)

\* one call passed the check on an image content-type without a content-length, another
\* was refused because the response had no content-type
C14_Witness ==
    \E c, b \in Calls :
        /\ ~hfToken
        /\ calls[c].pc = "done" /\ ~calls[c].hit /\ ~calls[c].threw
        /\ calls[c].resp = HeadOk(Header(wImagePng), Null)
        /\ calls[c].result.status = "basic_check"
        /\ calls[b].pc = "done" /\ ~calls[b].hit /\ ~calls[b].threw
        /\ calls[b].resp = HeadOk(Null, Null) /\ calls[b].result.status = "invalid"

(***************************************************************************)
(* C15: every result computed on a miss for a valid URL and returned by    *)
(* the call (BASIC_CHECK, ANALYZED, AUTHENTIC, INVALID by content-type,    *)
(* ERROR of an upstream failure) is in the cache under the key of the URL, *)
(* with the default TTL, when the call returns; a second call with the     *)
(* same URL that reads that entry before it expires returns the same       *)
(* result and issues no upstream request.                                  *)
(***************************************************************************)
C15_ComputedResultsCached ==
    [][\A c \in Calls :
          LET k == ImageCacheKey(calls[c].arg) IN
          isValidImageUrl(calls[c].arg) =>
             /\ (calls[c].pc = "cacheSet" /\ calls'[c].pc = "done" /\ ~calls'[c].threw) =>
                   /\ calls'[c].result = calls[c].data
                   /\ CacheEntry(k, calls'[c].result, now + DefaultTtl) \in store'
             /\ (calls'[c].pc = "done" /\ ~calls'[c].hit /\ ~calls'[c].threw) =>
                   calls'[c].wrote
             /\ \A c1 \in Calls :
                   (/\ calls[c].pc = "cacheGet"
                    /\ calls'[c].pc # "cacheGet"
                    /\ ~calls'[c].threw
                    /\ lastSet[k].by = c1
                    /\ calls[c1].arg = calls[c].arg
                    /\ now < lastSet[k].at + DefaultTtl) =>
                       /\ calls'[c].pc = "done"
                       /\ calls'[c].result = calls[c1].result
                       /\ calls'[c].reqs = {}]_vars

\* a second call that was answered with the cached ERROR of the first, whose image
\* fetch had failed
C15_Witness ==
    \E c \in Calls :
        /\ calls[c].pc = "done" /\ calls[c].hit
        /\ isValidImageUrl(calls[c].arg)
        /\ calls[c].src \in Calls \ {c}
        /\ calls[calls[c].src].arg = calls[c].arg
        /\ calls[calls[c].src].wrote
        /\ calls[calls[c].src].reqs = {"get"}
        /\ calls[c].result = calls[calls[c].src].result
        /\ calls[c].result.status = "error"
        /\ calls[c].reqs = {}

(***************************************************************************)
(* C16: the confidence of every result verifyImage returns lies in [0,1],  *)
(* whatever the upstream services answer, the classification score copied  *)
(* into the confidence included.                                           *)
(***************************************************************************)
C16_ConfidenceInUnitInterval ==
    \A c \in Calls :
        calls[c].pc = "done" =>
            (calls[c].result.confidence >= 0 /\ calls[c].result.confidence <= 10)

(***************************************************************************)
(* Properties of interleaved calls.                                        *)
(***************************************************************************)

(***************************************************************************)
(* C17: concurrent misses are not coalesced.  A call of extractLocation    *)
(* whose cache read finds no live entry goes on to the NER step itself,    *)
(* whatever the other calls in flight are doing; its NER step computes its *)
(* own result; a step of one call never touches the record of another; and *)
(* every miss that returns has done its own upstream work and its own      *)
(* cache write.  So two calls in flight for one uncached key both miss,    *)
(* both call upstream and both write (the witness).                        *)
(***************************************************************************)
C17_MissesNotCoalesced ==
    [][\A c \in Calls :
          LET k == LocationCacheKey(calls[c].arg) IN
          calls'[c] # calls[c] =>
             /\ \A b \in Calls \ {c} : calls'[b] = calls[b]
             /\ (calls[c].pc = "cacheGet" /\ ~calls'[c].threw /\ ~HasLiveEntry(k)) =>
                   (calls'[c].pc = "ner" /\ calls'[c].result = NoResult)
             /\ calls[c].pc = "ner" =>
                   /\ calls'[c].pc = "cacheSet"
                   /\ hfToken => "ner" \in calls'[c].reqs
             /\ (calls'[c].pc = "done" /\ ~calls'[c].hit /\ ~calls'[c].threw) =>
                   /\ calls'[c].wrote
                   /\ calls'[c].result = calls[c].data
                   /\ hfToken => "ner" \in calls'[c].reqs]_vars

\* two calls for the same description: both read a miss, both asked the NER service,
\* both wrote the cache
C17_Witness ==
    \E c, b \in Calls :
        /\ c # b
        /\ hfToken
        /\ calls[c].arg = calls[b].arg
        /\ calls[c].pc = "done" /\ calls[b].pc = "done"
        /\ ~calls[c].hit /\ ~calls[b].hit
        /\ "ner" \in calls[c].reqs /\ "ner" \in calls[b].reqs
        /\ calls[c].wrote /\ calls[b].wrote

(***************************************************************************)
(* C18: cache writes of interleaved calls are atomic and the last one      *)
(* wins: a key has at most one entry, and that entry is exactly the value  *)
(* and the expiry of the set that executed last on the key, never the      *)
(* value of one write with the expiry of another; while that set has not   *)
(* expired its entry is there; and the result of every hit is the whole    *)
(* value some call wrote.                                                  *)
(***************************************************************************)
C18_LastWriteWins ==
    /\ \A k \in LocKeys :
          /\ Cardinality(EntriesOf(store, k)) <= 1
          /\ \A e \in EntriesOf(store, k) :
                /\ lastSet[k].done
                /\ e = CacheEntry(k, lastSet[k].value, lastSet[k].at + lastSet[k].ttl)
          /\ (lastSet[k].done /\ now < lastSet[k].at + lastSet[k].ttl) =>
                EntriesOf(store, k) # {}
    /\ \A c \in Calls :
          (calls[c].pc = "done" /\ calls[c].hit) =>
              \E b \in Calls : calls[b].wrote /\ calls[c].result = calls[b].result

\* two calls wrote different results under one key at different times; the entry is the
\* later write, value and expiry
C18_Witness ==
    \E c, b \in Calls :
        LET k == LocationCacheKey(calls[c].arg) IN
        /\ c # b
        /\ LocationCacheKey(calls[b].arg) = k
        /\ calls[c].wrote /\ calls[b].wrote
        /\ calls[c].result # calls[b].result
        /\ lastSet[k].by = b
        /\ lastSet[k].at > 0
        /\ store = {CacheEntry(k, calls[b].result, lastSet[k].at + DefaultTtl)}

(***************************************************************************)
(* SocialMediaService.detectPriorityAlerts: the filter and the sort of a   *)
(* batch of reports.  The operation has no await and keeps no state: an    *)
(* invocation is one step and invocations do not affect each other.  In    *)
(* this part `calls` is the record of the invocation.                      *)
(***************************************************************************)
MaxBatch == 4

\* a JavaScript value as the comparator sees it: a number (NaN included), a member
\* inherited from Object.prototype, or undefined
Num(n) == [type |-> "number", nan |-> FALSE, val |-> n, ref |-> ""]
NaN == [type |-> "number", nan |-> TRUE, val |-> 0, ref |-> ""]

\* a timestamp is an ISO string; minute is what it denotes when it parses
Timestamp(m) == [valid |-> TRUE, minute |-> m]

\* new Date(timestamp).getTime()
GetTime(ts) == IF ts.valid THEN Num(ts.minute) ELSE NaN

\* a missing priority is the priority "undefined": that is the key the lookup uses
Report(i, c, p, t) == [id |-> i, content |-> c, priority |-> p, timestamp |-> t]

Reports ==
    { Report("A", <<"E","v","a","c","u","a","t","i","o","n"," ","n","o","w">>,
             "medium", Timestamp(2)),
      Report("B", <<"a","l","l"," ","c","a","l","m">>,
             "low", Timestamp(3)),
      Report("C", <<"r","o","a","d"," ","c","l","o","s","e","d">>,
             "urgent", Timestamp(1)),
      Report("D", <<"S","O","S">>,
             "high", Timestamp(2)),
      Report("E", <<"u","n","h","e","l","p","f","u","l">>,
             "low", Timestamp(3)),
      Report("F", <<"T","r","a","p","p","e","d">>,
             "constructor", Timestamp(3)),
      Report("G", <<"d","a","n","g","e","r">>,
             "undefined", Timestamp(1)),
      Report("H", <<"c","r","i","t","i","c","a","l">>,
             "high", Timestamp(2)),
      Report("I", <<"v","o","l","u","n","t","e","e","r"," ","s","u","p","p","o","r","t"," ","a","n","d"," ","r","e","l","i","e","f",","," ","n","o"," ","d","a","n","g","e","r">>,
             "medium", Timestamp(1)),
      Report("J", <<"H","e","l","p","!"," ","h","e","l","p",","," ","f","i","r","e">>,
             "low", Timestamp(2)) }

\* the batches of distinct reports
Batches ==
    {b \in UNION {[1..n -> Reports] : n \in 0..MaxBatch} :
        \A i, j \in DOMAIN b : i # j => b[i] # b[j]}

urgentKeywords ==
    << <<"u","r","g","e","n","t">>,
       <<"s","o","s">>,
       <<"e","m","e","r","g","e","n","c","y">>,
       <<"h","e","l","p">>,
       <<"t","r","a","p","p","e","d">>,
       <<"c","r","i","t","i","c","a","l">>,
       <<"e","v","a","c","u","a","t","i","o","n">>,
       <<"d","a","n","g","e","r">> >>

\* mutant: the priority field is not looked at
IsPriorityAlertByContent(report) ==
    \E i \in 1..Len(urgentKeywords) : Includes(ToLower(report.content), urgentKeywords[i])

\* the filter callback
IsPriorityAlert(report) ==
    \/ \E i \in 1..Len(urgentKeywords) : Includes(ToLower(report.content), urgentKeywords[i])
    \/ report.priority = "urgent"

priorityOrder == [urgent |-> 3, high |-> 2, medium |-> 1, low |-> 0]

\* the keys an object literal answers besides its own
ObjectPrototypeNames ==
    {"constructor", "toString", "valueOf", "hasOwnProperty", "isPrototypeOf",
     "propertyIsEnumerable", "toLocaleString", "__proto__"}

\* priorityOrder[p]
PriorityLookup(p) ==
    IF p \in DOMAIN priorityOrder THEN Num(priorityOrder[p])
    ELSE IF p \in ObjectPrototypeNames
    THEN [type |-> "function", nan |-> FALSE, val |-> 0, ref |-> p]
    ELSE [type |-> "undefined", nan |-> FALSE, val |-> 0, ref |-> ""]

\* x || 0
OrZero(x) ==
    IF x.type = "undefined" \/ (x.type = "number" /\ (x.nan \/ x.val = 0)) THEN Num(0) ELSE x

\* x - y
Minus(x, y) ==
    IF x.type # "number" \/ y.type # "number" \/ x.nan \/ y.nan THEN NaN
    ELSE Num(x.val - y.val)

\* the comparator given to sort
ComparePriority(a, b) ==
    LET aPriority == OrZero(PriorityLookup(a.priority))
        bPriority == OrZero(PriorityLookup(b.priority))
    IN IF aPriority # bPriority
       THEN Minus(bPriority, aPriority)
       ELSE Minus(GetTime(b.timestamp), GetTime(a.timestamp))

\* Array.prototype.sort reads a NaN from the comparator as 0
SortCompare(a, b) ==
    LET v == ComparePriority(a, b) IN IF v.nan THEN 0 ELSE v.val

\* is the comparator a consistent one on these elements (a total preorder)
ConsistentOn(S) ==
    /\ \A a \in S : SortCompare(a, a) = 0
    /\ \A a, b \in S :
          /\ SortCompare(a, b) = 0 => SortCompare(b, a) = 0
          /\ SortCompare(a, b) < 0 => SortCompare(b, a) > 0
    /\ \A a, b, c \in S :
          /\ (SortCompare(a, b) = 0 /\ SortCompare(b, c) = 0) => SortCompare(a, c) = 0
          /\ (SortCompare(a, b) < 0 /\ SortCompare(b, c) < 0) => SortCompare(a, c) < 0
          /\ (SortCompare(a, b) > 0 /\ SortCompare(b, c) > 0) => SortCompare(a, c) > 0

\* x after the last element of the sorted prefix that does not compare above it
InsertSorted(sorted, x) ==
    LET below == {j \in 1..Len(sorted) : SortCompare(sorted[j], x) <= 0}
        p == IF below = {} THEN 0 ELSE CHOOSE j \in below : \A i \in below : i <= j
    IN SubSeq(sorted, 1, p) \o <<x>> \o SubSeq(sorted, p + 1, Len(sorted))

RECURSIVE StableSort(_)
\* the stable sort the language requires of Array.prototype.sort
StableSort(xs) ==
    IF Len(xs) <= 1 THEN xs
    ELSE InsertSorted(StableSort(SubSeq(xs, 1, Len(xs) - 1)), xs[Len(xs)])

\* what sort can leave in the array: the stable order under a consistent comparator,
\* an order the implementation chooses under an inconsistent one
SortOutcomes(xs) ==
    IF ConsistentOn({xs[i] : i \in DOMAIN xs})
    THEN {StableSort(xs)}
    ELSE {[i \in DOMAIN xs |-> xs[f[i]]] :
             f \in {g \in [DOMAIN xs -> DOMAIN xs] : \A i, j \in DOMAIN xs : i # j => g[i] # g[j]}}

\* the reports the filter callback keeps
PriorityAlerts == {report \in Reports : IsPriorityAlert(report)}

\* reports.filter(...).sort(...)
detectPriorityAlerts(reports) ==
    SortOutcomes(SelectSeq(reports, LAMBDA report : report \in PriorityAlerts))

\* mutant: the operation works on the caller's array and records
CallerArrayAliased(reports, returned) == returned

\* the caller's array once the call has returned: filter and map build a new array,
\* sort sorts the array filter built, the spread copies into a new record
CallerArray(reports, returned) == reports

TriageDetect(reports) ==
    /\ calls.op = "none"
    /\ \E alerts \in detectPriorityAlerts(reports) :
          calls' = [op |-> "detectPriorityAlerts", arg |-> reports, result |-> alerts,
                    after |-> CallerArray(reports, alerts)]
    /\ UNCHANGED <<store, now, last, lastSet, hfToken, app>>

positiveKeywords ==
    << <<"h","e","l","p">>,
       <<"s","a","f","e">>,
       <<"r","e","s","c","u","e","d">>,
       <<"v","o","l","u","n","t","e","e","r">>,
       <<"s","u","p","p","o","r","t">>,
       <<"r","e","l","i","e","f">> >>

negativeKeywords ==
    << <<"t","r","a","p","p","e","d">>,
       <<"d","a","n","g","e","r">>,
       <<"e","m","e","r","g","e","n","c","y">>,
       <<"c","r","i","t","i","c","a","l">>,
       <<"u","r","g","e","n","t">>,
       <<"f","l","o","o","d">>,
       <<"f","i","r","e">> >>

\* mutant: every occurrence of a keyword counts
analyzeSentimentAllOccurrences(reports) ==
    [i \in DOMAIN reports |->
        LET report == reports[i]
            content == ToLower(report.content)
            Count(keywords) ==
                Cardinality({<<k, j>> \in (DOMAIN keywords) \X (1..Len(content)) :
                                /\ j + Len(keywords[k]) - 1 <= Len(content)
                                /\ SubSeq(content, j, j + Len(keywords[k]) - 1) = keywords[k]})
            positiveCount == Count(positiveKeywords)
            negativeCount == Count(negativeKeywords)
            sentiment == IF negativeCount > positiveCount THEN "negative"
                         ELSE IF positiveCount > negativeCount THEN "positive"
                         ELSE "neutral"
        IN [f \in DOMAIN report \cup {"sentiment", "sentiment_score"} |->
               IF f = "sentiment" THEN sentiment
               ELSE IF f = "sentiment_score" THEN positiveCount - negativeCount
               ELSE report[f]]]

\* mutant: the label tells which vocabulary was hit at all
analyzeSentimentByPresence(reports) ==
    [i \in DOMAIN reports |->
        LET report == reports[i]
            content == ToLower(report.content)
            Count(keywords) ==
                Cardinality({k \in DOMAIN keywords : Includes(content, keywords[k])})
            positiveCount == Count(positiveKeywords)
            negativeCount == Count(negativeKeywords)
            sentiment == IF negativeCount > 0 THEN "negative"
                         ELSE IF positiveCount > 0 THEN "positive"
                         ELSE "neutral"
        IN [f \in DOMAIN report \cup {"sentiment", "sentiment_score"} |->
               IF f = "sentiment" THEN sentiment
               ELSE IF f = "sentiment_score" THEN positiveCount - negativeCount
               ELSE report[f]]]

\* mutant: the annotated record carries the id and the two new fields only
analyzeSentimentBare(reports) ==
    [i \in DOMAIN reports |->
        LET report == reports[i]
            content == ToLower(report.content)
            Count(keywords) ==
                Cardinality({k \in DOMAIN keywords : Includes(content, keywords[k])})
            positiveCount == Count(positiveKeywords)
            negativeCount == Count(negativeKeywords)
            sentiment == IF negativeCount > positiveCount THEN "negative"
                         ELSE IF positiveCount > negativeCount THEN "positive"
                         ELSE "neutral"
        IN [id |-> report.id, sentiment |-> sentiment,
            sentiment_score |-> positiveCount - negativeCount]]

\* reports.map(report => ({...report, sentiment, sentiment_score}))
analyzeSentiment(reports) ==
    [i \in DOMAIN reports |->
        LET report == reports[i]
            content == ToLower(report.content)
            \* keywords.filter(keyword => content.includes(keyword)).length
            Count(keywords) ==
                Cardinality({k \in DOMAIN keywords : Includes(content, keywords[k])})
            positiveCount == Count(positiveKeywords)
            negativeCount == Count(negativeKeywords)
            sentiment == IF negativeCount > positiveCount THEN "negative"
                         ELSE IF positiveCount > negativeCount THEN "positive"
                         ELSE "neutral"
        IN [f \in DOMAIN report \cup {"sentiment", "sentiment_score"} |->
               IF f = "sentiment" THEN sentiment
               ELSE IF f = "sentiment_score" THEN positiveCount - negativeCount
               ELSE report[f]]]

TriageSentiment(reports) ==
    /\ calls.op = "none"
    /\ LET annotated == analyzeSentiment(reports)
       IN calls' = [op |-> "analyzeSentiment", arg |-> reports, result |-> annotated,
                    after |-> CallerArray(reports, annotated)]
    /\ UNCHANGED <<store, now, last, lastSet, hfToken, app>>

InitTriage ==
    /\ store = {}
    /\ now = 0
    /\ last = NoOp
    /\ lastSet = <<>>
    /\ hfToken = FALSE
    /\ app = NoApp
    /\ calls = [op |-> "none", arg |-> <<>>, result |-> <<>>, after |-> <<>>]

NextTriage ==
    \E reports \in Batches :
        \/ TriageDetect(reports)
        \/ TriageSentiment(reports)

SpecTriage == InitTriage /\ [][NextTriage]_vars

(***************************************************************************)
(* Properties of detectPriorityAlerts.                                     *)
(***************************************************************************)
\* the rank of a priority: urgent 3, high 2, medium 1, low and anything else 0
Rank(p) == CASE p = "urgent" -> 3 [] p = "high" -> 2 [] p = "medium" -> 1 [] OTHER -> 0

\* how many times a report occurs in a sequence
Occurrences(xs, r) == Cardinality({j \in DOMAIN xs : xs[j] = r})

(***************************************************************************)
(* C19: detectPriorityAlerts keeps a report exactly when its content       *)
(* contains, in any letter case, one of urgent, sos, emergency, help,      *)
(* trapped, critical, evacuation, danger, or its priority is urgent: each  *)
(* such report of the batch is in the output exactly once, and nothing     *)
(* else is in the output.                                                  *)
(***************************************************************************)
C19_KeepsExactlyTheAlerts ==
    calls.op = "detectPriorityAlerts" =>
        /\ \A i \in DOMAIN calls.arg :
              LET r == calls.arg[i]
                  kept == \/ \E k \in 1..Len(urgentKeywords) :
                                Includes(ToLower(r.content), urgentKeywords[k])
                          \/ r.priority = "urgent"
              IN Occurrences(calls.result, r) = IF kept THEN 1 ELSE 0
        /\ \A j \in DOMAIN calls.result : Occurrences(calls.arg, calls.result[j]) = 1

\* the batch A (medium, "Evacuation now"), B (low, "all calm"), C (urgent, "road closed")
\* gave C then A
C19_Witness ==
    /\ calls.op = "detectPriorityAlerts"
    /\ Len(calls.arg) = 3
    /\ calls.arg[1].id = "A" /\ calls.arg[2].id = "B" /\ calls.arg[3].id = "C"
    /\ Len(calls.result) = 2
    /\ calls.result[1].id = "C" /\ calls.result[2].id = "A"

(***************************************************************************)
(* C20: the output of detectPriorityAlerts is sorted by rank descending    *)
(* and, within a rank, by timestamp descending: of two adjacent reports x  *)
(* before y, rank(x) > rank(y), or the ranks are equal and the timestamp   *)
(* of x is not before that of y.                                           *)
(***************************************************************************)
C20_SortedByRankThenTime ==
    calls.op = "detectPriorityAlerts" =>
        \A j \in 1..(Len(calls.result) - 1) :
            LET x == calls.result[j]
                y == calls.result[j + 1]
            IN \/ Rank(x.priority) > Rank(y.priority)
               \/ /\ Rank(x.priority) = Rank(y.priority)
                  /\ x.timestamp.minute >= y.timestamp.minute

\* where a report stands in a sequence that holds it
Position(xs, r) == CHOOSE j \in DOMAIN xs : xs[j] = r

(***************************************************************************)
(* C21: the ordering of detectPriorityAlerts is stable and deterministic:  *)
(* the batch has one possible output, and two kept reports of equal rank   *)
(* and equal timestamp stand in the output in the order they had in the    *)
(* input.                                                                  *)
(***************************************************************************)
C21_StableAndDeterministic ==
    calls.op = "detectPriorityAlerts" =>
        /\ Cardinality(detectPriorityAlerts(calls.arg)) = 1
        /\ \A i, j \in DOMAIN calls.arg :
              LET x == calls.arg[i]
                  y == calls.arg[j]
              IN (/\ i < j
                  /\ Occurrences(calls.result, x) = 1
                  /\ Occurrences(calls.result, y) = 1
                  /\ Rank(x.priority) = Rank(y.priority)
                  /\ x.timestamp = y.timestamp)
                 => Position(calls.result, x) < Position(calls.result, y)

(***************************************************************************)
(* C22: priorities are ranked urgent 3, high 2, medium 1, low 0 and every  *)
(* other or missing priority 0: the rank the comparator uses for each      *)
(* report of the batch is that number, and no report whose priority is     *)
(* none of the four stands in the output ahead of a medium, high or urgent *)
(* report.                                                                 *)
(***************************************************************************)
C22_UnrecognizedRankedLowest ==
    calls.op = "detectPriorityAlerts" =>
        /\ \A i \in DOMAIN calls.arg :
              OrZero(PriorityLookup(calls.arg[i].priority)) = Num(Rank(calls.arg[i].priority))
        /\ \A i, j \in DOMAIN calls.result :
              (/\ i < j
               /\ calls.result[i].priority \notin {"urgent", "high", "medium", "low"})
              => Rank(calls.result[j].priority) = 0

(***************************************************************************)
(* Properties of analyzeSentiment.                                         *)
(***************************************************************************)
\* how many times the words of a vocabulary occur in a content, every occurrence counted
OccurrenceCount(content, keywords) ==
    Cardinality({<<k, j>> \in (DOMAIN keywords) \X (1..Len(content)) :
                    /\ j + Len(keywords[k]) - 1 <= Len(content)
                    /\ SubSeq(ToLower(content), j, j + Len(keywords[k]) - 1) = keywords[k]})

\* how many words of a vocabulary occur in a content at least once
WordsHit(content, keywords) ==
    Cardinality({k \in DOMAIN keywords : Includes(ToLower(content), keywords[k])})

(***************************************************************************)
(* C23, as stated: sentiment_score is the number of occurrences of the     *)
(* positive words in the content, in any letter case, minus the number of  *)
(* occurrences of the negative words.                                      *)
(***************************************************************************)
C23_ScoreCountsOccurrences ==
    calls.op = "analyzeSentiment" =>
        \A i \in DOMAIN calls.result :
            calls.result[i].sentiment_score =
                OccurrenceCount(calls.arg[i].content, positiveKeywords)
                    - OccurrenceCount(calls.arg[i].content, negativeKeywords)

(***************************************************************************)
(* C23, amended: sentiment_score is the number of positive words that      *)
(* occur in the content at least once, in any letter case, minus the       *)
(* number of negative words that do; a word occurring several times counts *)
(* once.                                                                   *)
(***************************************************************************)
C23_ScoreCountsWordsHit ==
    calls.op = "analyzeSentiment" =>
        \A i \in DOMAIN calls.result :
            calls.result[i].sentiment_score =
                WordsHit(calls.arg[i].content, positiveKeywords)
                    - WordsHit(calls.arg[i].content, negativeKeywords)

\* "volunteer support and relief, no danger" scored 2 and "Help! help, fire" scored 0
C23_Witness ==
    /\ calls.op = "analyzeSentiment"
    /\ Len(calls.arg) = 2
    /\ calls.arg[1].id = "I" /\ calls.arg[2].id = "J"
    /\ calls.result[1].sentiment_score = 2 /\ calls.result[1].sentiment = "positive"
    /\ calls.result[2].sentiment_score = 0
    /\ OccurrenceCount(calls.arg[2].content, positiveKeywords) = 2

(***************************************************************************)
(* C24: the label of an annotated report follows from its score alone:     *)
(* positive exactly when the score is above 0, negative exactly when it is *)
(* below 0, neutral exactly when it is 0; a content that hits neither      *)
(* vocabulary is neutral with score 0; and label and score are those the   *)
(* report gets when it is annotated alone.                                 *)
(***************************************************************************)
C24_LabelFollowsScore ==
    calls.op = "analyzeSentiment" =>
        \A i \in DOMAIN calls.result :
            LET r == calls.result[i]
                alone == analyzeSentiment(<<calls.arg[i]>>)[1]
            IN /\ r.sentiment \in {"positive", "negative", "neutral"}
               /\ r.sentiment = "positive" <=> r.sentiment_score > 0
               /\ r.sentiment = "negative" <=> r.sentiment_score < 0
               /\ r.sentiment = "neutral" <=> r.sentiment_score = 0
               /\ (/\ WordsHit(calls.arg[i].content, positiveKeywords) = 0
                   /\ WordsHit(calls.arg[i].content, negativeKeywords) = 0)
                  => (r.sentiment = "neutral" /\ r.sentiment_score = 0)
               /\ r.sentiment = alone.sentiment
               /\ r.sentiment_score = alone.sentiment_score

\* one batch with a content without hits (neutral, 0), one with as many positive as
\* negative hits (neutral, 0), a positive and a negative one
C24_Witness ==
    /\ calls.op = "analyzeSentiment"
    /\ Len(calls.arg) = 4
    /\ [i \in 1..4 |-> calls.arg[i].id] = <<"B", "J", "E", "F">>
    /\ [i \in 1..4 |-> calls.result[i].sentiment] = <<"neutral", "neutral", "positive", "negative">>
    /\ [i \in 1..4 |-> calls.result[i].sentiment_score] = <<0, 0, 1, -1>>
    /\ WordsHit(calls.arg[2].content, positiveKeywords) = 1

(***************************************************************************)
(* C25: analyzeSentiment returns one record per report, in input order;    *)
(* each record has the fields of its report, with their values, and the    *)
(* fields sentiment and sentiment_score besides.                           *)
(***************************************************************************)
C25_OneAnnotatedRecordPerReport ==
    calls.op = "analyzeSentiment" =>
        /\ Len(calls.result) = Len(calls.arg)
        /\ \A i \in DOMAIN calls.arg :
              /\ DOMAIN calls.result[i] = DOMAIN calls.arg[i] \cup {"sentiment", "sentiment_score"}
              /\ \A f \in DOMAIN calls.arg[i] : calls.result[i][f] = calls.arg[i][f]

\* three reports annotated, in their order
C25_Witness ==
    /\ calls.op = "analyzeSentiment"
    /\ Len(calls.arg) = 3
    /\ [i \in 1..3 |-> calls.arg[i].id] = <<"H", "A", "I">>
    /\ [i \in 1..3 |-> calls.result[i].id] = <<"H", "A", "I">>
    /\ calls.result[1].priority = "high" /\ calls.result[1].sentiment = "negative"

SocialCacheKey(disasterId, tags) ==
    LET RECURSIVE Join(_)
        Join(ws) == IF ws = <<>> THEN <<>>
                    ELSE IF Len(ws) = 1 THEN ws[1]
                    ELSE ws[1] \o <<"_">> \o Join(Tail(ws))
    IN <<"social_media_">> \o disasterId \o <<"_">> \o Join(tags)

\* the candidate reports, made at clock t; only the fields the service reads afterwards
\* are kept, and each of the two pictographs of the contents is written *
baseReports(disasterId, t) ==
    <<
     [id |-> <<"tweet_">> \o disasterId \o <<"_", "1">>,
      content |-> <<
          "#","F","l","o","o","d","A","l","e","r","t"," ","W","a","t","e","r"," ","l","e",
          "v","e","l","s"," ","r","i","s","i","n","g"," ","r","a","p","i","d","l","y"," ",
          "i","n"," ","d","o","w","n","t","o","w","n"," ","a","r","e","a","."," ","M","u",
          "l","t","i","p","l","e"," ","s","t","r","e","e","t","s"," ","f","l","o","o","d",
          "e","d","."," ","A","v","o","i","d"," ","5","t","h"," ","A","v","e","n","u","e",
          " ","b","e","t","w","e","e","n"," ","4","2","n","d"," ","a","n","d"," ","5","0",
          "t","h"," ","S","t","r","e","e","t","."," ","E","m","e","r","g","e","n","c","y",
          " ","s","e","r","v","i","c","e","s"," ","o","n"," ","s","c","e","n","e","." >>,
      timestamp |-> Timestamp(t * 30 - 15),
      priority |-> "urgent",
      keywords |-> <<<<"f","l","o","o","d">>, <<"e","m","e","r","g","e","n","c","y">>, <<"w","a","t","e","r">>, <<"s","t","r","e","e","t","s">>>>],
     [id |-> <<"tweet_">> \o disasterId \o <<"_", "2">>,
      content |-> <<
          "*"," ","E","M","E","R","G","E","N","C","Y"," ","A","L","E","R","T",":"," ","E",
          "v","a","c","u","a","t","i","o","n"," ","o","r","d","e","r"," ","i","s","s","u",
          "e","d"," ","f","o","r"," ","L","o","w","e","r"," ","E","a","s","t"," ","S","i",
          "d","e"," ","r","e","s","i","d","e","n","t","s","."," ","P","r","o","c","e","e",
          "d"," ","t","o"," ","d","e","s","i","g","n","a","t","e","d"," ","s","h","e","l",
          "t","e","r","s"," ","i","m","m","e","d","i","a","t","e","l","y","."," ","T","r",
          "a","n","s","p","o","r","t","a","t","i","o","n"," ","a","v","a","i","l","a","b",
          "l","e"," ","a","t"," ","c","o","m","m","u","n","i","t","y"," ","c","e","n","t",
          "e","r","s","." >>,
      timestamp |-> Timestamp(t * 30 - 25),
      priority |-> "urgent",
      keywords |-> <<<<"e","v","a","c","u","a","t","i","o","n">>, <<"e","m","e","r","g","e","n","c","y">>, <<"s","h","e","l","t","e","r">>, <<"t","r","a","n","s","p","o","r","t","a","t","i","o","n">>>>],
     [id |-> <<"tweet_">> \o disasterId \o <<"_", "3">>,
      content |-> <<
          "S","e","t","t","i","n","g"," ","u","p"," ","e","m","e","r","g","e","n","c","y",
          " ","f","o","o","d"," ","d","i","s","t","r","i","b","u","t","i","o","n"," ","a",
          "t"," ","C","e","n","t","r","a","l"," ","P","a","r","k","."," ","H","o","t"," ",
          "m","e","a","l","s"," ","a","n","d"," ","w","a","t","e","r"," ","a","v","a","i",
          "l","a","b","l","e","."," ","V","o","l","u","n","t","e","e","r","s"," ","n","e",
          "e","d","e","d","!"," ","#","D","i","s","a","s","t","e","r","R","e","l","i","e",
          "f"," ","#","N","Y","C" >>,
      timestamp |-> Timestamp(t * 30 - 45),
      priority |-> "medium",
      keywords |-> <<<<"f","o","o","d">>, <<"v","o","l","u","n","t","e","e","r","s">>, <<"r","e","l","i","e","f">>, <<"h","e","l","p">>>>],
     [id |-> <<"tweet_">> \o disasterId \o <<"_", "4">>,
      content |-> <<
          "M","o","b","i","l","e"," ","m","e","d","i","c","a","l"," ","u","n","i","t"," ",
          "d","e","p","l","o","y","e","d"," ","t","o"," ","B","r","o","o","k","l","y","n",
          " ","B","r","i","d","g","e"," ","a","r","e","a","."," ","F","i","r","s","t"," ",
          "a","i","d"," ","a","n","d"," ","e","m","e","r","g","e","n","c","y"," ","m","e",
          "d","i","c","a","l"," ","c","a","r","e"," ","a","v","a","i","l","a","b","l","e",
          "."," ","F","o","l","l","o","w"," ","s","a","f","e","t","y"," ","p","r","o","t",
          "o","c","o","l","s"," ","w","h","e","n"," ","a","p","p","r","o","a","c","h","i",
          "n","g","." >>,
      timestamp |-> Timestamp(t * 30 - 35),
      priority |-> "high",
      keywords |-> <<<<"m","e","d","i","c","a","l">>, <<"f","i","r","s","t"," ","a","i","d">>, <<"e","m","e","r","g","e","n","c","y">>, <<"s","a","f","e","t","y">>>>],
     [id |-> <<"tweet_">> \o disasterId \o <<"_", "5">>,
      content |-> <<
          "P","o","w","e","r"," ","o","u","t","a","g","e"," ","a","f","f","e","c","t","i",
          "n","g"," ","e","n","t","i","r","e"," ","b","l","o","c","k"," ","o","n"," ","8",
          "t","h"," ","A","v","e","n","u","e","."," ","T","r","a","f","f","i","c"," ","l",
          "i","g","h","t","s"," ","d","o","w","n","."," ","P","l","e","a","s","e"," ","d",
          "r","i","v","e"," ","c","a","r","e","f","u","l","l","y"," ","a","n","d"," ","c",
          "h","e","c","k"," ","o","n"," ","e","l","d","e","r","l","y"," ","n","e","i","g",
          "h","b","o","r","s","." >>,
      timestamp |-> Timestamp(t * 30 - 55),
      priority |-> "medium",
      keywords |-> <<<<"p","o","w","e","r">>, <<"o","u","t","a","g","e">>, <<"t","r","a","f","f","i","c">>, <<"s","a","f","e","t","y">>>>],
     [id |-> <<"tweet_">> \o disasterId \o <<"_", "6">>,
      content |-> <<
          "*"," ","S","t","r","u","c","t","u","r","e"," ","f","i","r","e"," ","c","o","n",
          "t","a","i","n","e","d"," ","a","t"," ","1","2","3"," ","M","a","i","n"," ","S",
          "t","."," ","A","r","e","a"," ","s","e","c","u","r","e","d","."," ","R","e","s",
          "i","d","e","n","t","s"," ","f","r","o","m"," ","a","d","j","a","c","e","n","t",
          " ","b","u","i","l","d","i","n","g","s"," ","e","v","a","c","u","a","t","e","d",
          " ","a","s"," ","p","r","e","c","a","u","t","i","o","n","."," ","A","i","r"," ",
          "q","u","a","l","i","t","y"," ","m","o","n","i","t","o","r","i","n","g"," ","i",
          "n"," ","p","r","o","g","r","e","s","s","." >>,
      timestamp |-> Timestamp(t * 30 - 65),
      priority |-> "high",
      keywords |-> <<<<"f","i","r","e">>, <<"e","v","a","c","u","a","t","i","o","n">>, <<"a","i","r"," ","q","u","a","l","i","t","y">>, <<"s","a","f","e","t","y">>>>],
     [id |-> <<"tweet_">> \o disasterId \o <<"_", "7">>,
      content |-> <<
          "C","o","m","m","u","n","i","t","y"," ","c","e","n","t","e","r"," ","a","t"," ",
          "4","5","6"," ","O","a","k"," ","S","t"," ","o","p","e","n"," ","a","s"," ","t",
          "e","m","p","o","r","a","r","y"," ","s","h","e","l","t","e","r","."," ","B","l",
          "a","n","k","e","t","s",","," ","f","o","o","d",","," ","a","n","d"," ","p","h",
          "o","n","e"," ","c","h","a","r","g","i","n","g"," ","s","t","a","t","i","o","n",
          "s"," ","a","v","a","i","l","a","b","l","e","."," ","P","e","t","-","f","r","i",
          "e","n","d","l","y"," ","f","a","c","i","l","i","t","y","." >>,
      timestamp |-> Timestamp(t * 30 - 75),
      priority |-> "medium",
      keywords |-> <<<<"s","h","e","l","t","e","r">>, <<"c","o","m","m","u","n","i","t","y">>, <<"p","e","t","s">>, <<"c","h","a","r","g","i","n","g">>>>],
     [id |-> <<"tweet_">> \o disasterId \o <<"_", "8">>,
      content |-> <<
          "S","u","b","w","a","y"," ","l","i","n","e","s"," ","4",","," ","5",","," ","6",
          " ","s","u","s","p","e","n","d","e","d"," ","d","u","e"," ","t","o"," ","f","l",
          "o","o","d","i","n","g","."," ","B","u","s"," ","s","e","r","v","i","c","e"," ",
          "r","e","r","o","u","t","e","d","."," ","C","h","e","c","k"," ","M","T","A"," ",
          "a","p","p"," ","f","o","r"," ","r","e","a","l","-","t","i","m","e"," ","u","p",
          "d","a","t","e","s","."," ","F","r","e","e"," ","r","i","d","e","s"," ","t","o",
          " ","e","v","a","c","u","a","t","i","o","n"," ","c","e","n","t","e","r","s","." >>,
      timestamp |-> Timestamp(t * 30 - 85),
      priority |-> "high",
      keywords |-> <<<<"s","u","b","w","a","y">>, <<"b","u","s">>, <<"t","r","a","n","s","p","o","r","t">>, <<"e","v","a","c","u","a","t","i","o","n">>>>] >>

\* mutant: only the keywords of a report are matched against the tags
generateEnhancedMockReportsKeywordsOnly(tags, disasterId, t) ==
    IF Len(tags) > 0
    THEN SelectSeq(baseReports(disasterId, t), LAMBDA report :
            \E i \in DOMAIN tags :
                \/ \E j \in DOMAIN report.keywords :
                      Includes(ToLower(report.keywords[j]), ToLower(tags[i]))
                \/ FALSE)
    ELSE baseReports(disasterId, t)

\* the candidate reports, filtered by the tags when there are tags
generateEnhancedMockReports(tags, disasterId, t) ==
    IF Len(tags) > 0
    THEN SelectSeq(baseReports(disasterId, t), LAMBDA report :
            \E i \in DOMAIN tags :
                \/ \E j \in DOMAIN report.keywords :
                      Includes(ToLower(report.keywords[j]), ToLower(tags[i]))
                \/ Includes(ToLower(report.content), ToLower(tags[i])))
    ELSE baseReports(disasterId, t)

\* the arguments of the calls: two disasters; no tag, a tag in capitals, a tag found in
\* keywords only with one found in contents only, a part of a keyword, and two tag lists
\* that join to the same text
FetchArgs ==
    [disasterId : {<<"d","1">>, <<"d","2">>},
     tags : { <<>>,
              <<<<"F","L","O","O","D">>>>,
              <<<<"p","e","t","s">>, <<"N","Y","C">>>>,
              <<<<"v","o","l","u","n","t","e","e","r">>>>,
              <<<<"p","o","w","e","r">>, <<"o","u","t","a","g","e">>>>,
              <<<<"p","o","w","e","r","_","o","u","t","a","g","e">>>> }]

\* mutant: the catch lets the exception through
FetchCatchRethrows(call) == [call EXCEPT !.pc = "raised", !.threw = TRUE]

\* the catch of fetchSocialMediaReports
FetchCatch(call) == [call EXCEPT !.pc = "done", !.threw = TRUE, !.result = <<>>]

FetchStart(c, a) ==
    /\ calls[c].pc = "idle"
    /\ \A b \in Calls : b < c => calls[b].pc # "idle"
    /\ calls' = [calls EXCEPT ![c] = [IdleCall EXCEPT !.pc = "cacheGet", !.arg = a]]
    /\ UNCHANGED <<store, now, last, lastSet, hfToken, app>>

\* await this.cache.get(cacheKey) and what follows it up to the next await
FetchCacheGet(c) ==
    /\ calls[c].pc = "cacheGet"
    /\ LET cacheKey == SocialCacheKey(calls[c].arg.disasterId, calls[c].arg.tags)
           cached == GetResult(store, now, cacheKey)
       IN \/ /\ calls' = [calls EXCEPT ![c] = FetchCatch(calls[c])]
             /\ UNCHANGED store
          \/ /\ store' \in StoresAfterGet(store, now, cacheKey)
             /\ calls' = [calls EXCEPT ![c] =
                   IF cached.found
                   THEN [calls[c] EXCEPT !.pc = "done", !.hit = TRUE, !.result = cached.value,
                                         !.src = lastSet[cacheKey].by]
                   ELSE [calls[c] EXCEPT !.pc = "cacheSet", !.reqs = {"generate"},
                            !.data = generateEnhancedMockReports(calls[c].arg.tags,
                                                                 calls[c].arg.disasterId, now)]]
    /\ UNCHANGED <<now, last, lastSet, hfToken, app>>

\* mutant: the batch is cached with the default TTL
FetchCacheSetDefaultTtl(c) ==
    /\ calls[c].pc = "cacheSet"
    /\ LET cacheKey == SocialCacheKey(calls[c].arg.disasterId, calls[c].arg.tags) IN
          \/ /\ calls' = [calls EXCEPT ![c] = FetchCatch(calls[c])]
             /\ UNCHANGED <<store, lastSet>>
          \/ /\ store' = StoreAfterSet(store, now, cacheKey, calls[c].data, DefaultTtl)
             /\ lastSet' = [lastSet EXCEPT ![cacheKey] =
                   [done |-> TRUE, value |-> calls[c].data, at |-> now,
                    ttl |-> DefaultTtl, by |-> c]]
             /\ calls' = [calls EXCEPT ![c] =
                   [calls[c] EXCEPT !.pc = "done", !.wrote = TRUE, !.result = calls[c].data]]
    /\ UNCHANGED <<now, last, hfToken, app>>

\* await this.cache.set(cacheKey, mockReports, 0.5), then return mockReports
FetchCacheSet(c) ==
    /\ calls[c].pc = "cacheSet"
    /\ LET cacheKey == SocialCacheKey(calls[c].arg.disasterId, calls[c].arg.tags)
           halfHour == TicksPerHour \div 2
       IN \/ /\ calls' = [calls EXCEPT ![c] = FetchCatch(calls[c])]
             /\ UNCHANGED <<store, lastSet>>
          \/ /\ store' = StoreAfterSet(store, now, cacheKey, calls[c].data, halfHour)
             /\ lastSet' = [lastSet EXCEPT ![cacheKey] =
                   [done |-> TRUE, value |-> calls[c].data, at |-> now,
                    ttl |-> halfHour, by |-> c]]
             /\ calls' = [calls EXCEPT ![c] =
                   [calls[c] EXCEPT !.pc = "done", !.wrote = TRUE, !.result = calls[c].data]]
    /\ UNCHANGED <<now, last, hfToken, app>>

InitSocial ==
    /\ store = {}
    /\ now = 0
    /\ last = NoOp
    /\ lastSet = [k \in {SocialCacheKey(a.disasterId, a.tags) : a \in FetchArgs} |->
                     [done |-> FALSE, by |-> 0]]
    /\ hfToken = FALSE
    /\ app = NoApp
    /\ calls = [c \in Calls |-> IdleCall]

NextSocial ==
    \/ \E c \in Calls, a \in FetchArgs : FetchStart(c, a)
    \/ \E c \in Calls : FetchCacheGet(c)
    \/ \E c \in Calls : FetchCacheSet(c)
    \/ Tick

SpecSocial == InitSocial /\ [][NextSocial]_vars

(***************************************************************************)
(* Properties of fetchSocialMediaReports.                                  *)
(***************************************************************************)
\* the call generates its batch in this step
Generates(c) == calls[c].pc = "cacheGet" /\ calls'[c].pc = "cacheSet"

(***************************************************************************)
(* C27: the tag filter keeps a candidate report exactly when some tag of   *)
(* the list is, letter case aside, a substring of one of the report's      *)
(* keywords or of its content; with no tag every candidate is kept; the    *)
(* kept reports stand in the order of the candidates.                      *)
(***************************************************************************)
C27_TagFilter ==
    [][\A c \in Calls :
          Generates(c) =>
              LET tags == calls[c].arg.tags
                  candidates == baseReports(calls[c].arg.disasterId, now)
                  Text(w) == ToLower(w)
                  Keep(report) ==
                      \/ tags = <<>>
                      \/ \E tag \in {tags[i] : i \in DOMAIN tags} :
                            \/ \E keyword \in {report.keywords[j] : j \in DOMAIN report.keywords} :
                                  Includes(Text(keyword), Text(tag))
                            \/ Includes(Text(report.content), Text(tag))
                  kept == {n \in DOMAIN candidates : Keep(candidates[n])}
                  batch == calls'[c].data
              IN /\ Len(batch) = Cardinality(kept)
                 /\ \A m \in DOMAIN batch :
                       \E n \in kept :
                          /\ batch[m] = candidates[n]
                          /\ Cardinality({n2 \in kept : n2 < n}) = m - 1]_vars

\* the tags pets (in the keywords of the seventh candidate only) and NYC (in the content
\* of the third only) kept the third and the seventh, in that order
C27_Witness ==
    \E c \in Calls :
        /\ calls[c].pc = "cacheSet"
        /\ calls[c].arg.tags = << <<"p","e","t","s">>, <<"N","Y","C">> >>
        /\ Len(calls[c].data) = 2
        /\ calls[c].data[1].id = <<"tweet_">> \o calls[c].arg.disasterId \o <<"_", "3">>
        /\ calls[c].data[2].id = <<"tweet_">> \o calls[c].arg.disasterId \o <<"_", "7">>

(***************************************************************************)
(* C28: fetchSocialMediaReports reads the cache first.  A read that finds  *)
(* a live entry returns its batch, generates nothing and writes nothing.   *)
(* A read that finds none generates the tag-filtered batch, and the write  *)
(* that follows stores it for half an hour, less than the default TTL, and *)
(* returns it.  So a call with the arguments of the call that last wrote   *)
(* the key, reading less than half an hour after that write, returns that  *)
(* call's batch, and one reading half an hour or more after it generates   *)
(* anew.                                                                   *)
(***************************************************************************)
C28_CacheFirstHalfHour ==
    [][\A c \in Calls :
          LET k == SocialCacheKey(calls[c].arg.disasterId, calls[c].arg.tags)
              halfHour == TicksPerHour \div 2
              read == calls[c].pc = "cacheGet" /\ calls'[c].pc # "cacheGet" /\ ~calls'[c].threw
          IN /\ (read /\ GetResult(store, now, k).found) =>
                    /\ calls'[c].pc = "done"
                    /\ calls'[c].result = GetResult(store, now, k).value
                    /\ calls'[c].data = NoResult
                    /\ ~calls'[c].wrote
                    /\ store' \subseteq store
                    /\ lastSet' = lastSet
             /\ (read /\ ~GetResult(store, now, k).found) =>
                    /\ Generates(c)
                    /\ calls'[c].data = generateEnhancedMockReports(calls[c].arg.tags,
                                                                    calls[c].arg.disasterId, now)
             /\ (calls[c].pc = "cacheSet" /\ calls'[c].pc = "done" /\ ~calls'[c].threw) =>
                    /\ calls'[c].result = calls[c].data
                    /\ CacheEntry(k, calls[c].data, now + halfHour) \in store'
                    /\ halfHour < DefaultTtl
                    /\ halfHour * 2 = TicksPerHour
             /\ \A c1 \in Calls :
                   (/\ read
                    /\ lastSet[k].done
                    /\ lastSet[k].by = c1
                    /\ calls[c1].arg = calls[c].arg) =>
                       /\ now < lastSet[k].at + halfHour =>
                             /\ calls'[c].pc = "done"
                             /\ calls'[c].result = calls[c1].result
                             /\ calls'[c].data = NoResult
                       /\ now >= lastSet[k].at + halfHour => Generates(c)]_vars

\* a call returned the two-report batch its predecessor with the same arguments had
\* stored, and generated nothing
C28_Witness ==
    \E c \in Calls :
        /\ calls[c].pc = "done"
        /\ calls[c].hit
        /\ calls[c].src \in Calls \ {c}
        /\ calls[calls[c].src].arg = calls[c].arg
        /\ calls[calls[c].src].wrote
        /\ calls[c].result = calls[calls[c].src].result
        /\ Len(calls[c].result) = 2
        /\ calls[c].data = NoResult

(***************************************************************************)
(* Properties of the fallback chain of extractLocation.                    *)
(***************************************************************************)
\* the call has been through the named-entity step and has not thrown
PastNer(call) == call.pc \in {"cacheSet", "done"} /\ call.data # NoResult /\ ~call.threw

(***************************************************************************)
(* C29: the fallback chain stops at the first definite answer: the         *)
(* patterns are evaluated exactly when the named-entity step yielded       *)
(* nothing, and a non-empty answer of that step is the location of the     *)
(* result, with no pattern evaluated.                                      *)
(***************************************************************************)
C29_FallbackOnlyWithoutAnswer ==
    \A c \in Calls :
        PastNer(calls[c]) =>
            /\ calls[c].ranPatterns <=> ~Truthy(calls[c].ner)
            /\ Truthy(calls[c].ner) =>
                  /\ calls[c].data.location = calls[c].ner.text
                  /\ calls[c].pc = "done" => calls[c].result.location = calls[c].ner.text

(***************************************************************************)
(* C30: an error or a timeout of the named-entity request, or an answer    *)
(* that is not a list, is taken inside the named-entity step as no answer: *)
(* the step returns nothing, the top-level handler is not entered, the     *)
(* patterns are evaluated and their answer, if any, makes the result, with *)
(* confidence 0.8.                                                         *)
(***************************************************************************)
C30_NerFailureAbsorbed ==
    \A c \in Calls :
        (/\ calls[c].pc = "cacheSet"
         /\ "ner" \in calls[c].reqs
         /\ calls[c].resp.failed) =>
            /\ ~calls[c].threw
            /\ calls[c].ner = Null
            /\ calls[c].ranPatterns
            /\ calls[c].data = ResultData(PatternAnswer[calls[c].arg])
            /\ Truthy(PatternAnswer[calls[c].arg]) => calls[c].data.confidence = 8

\* the request of a call failed, or was answered with no list, and the call returned
\* the pattern answer with confidence 0.8
C30_Witness ==
    \E c \in Calls :
        /\ calls[c].pc = "done"
        /\ ~calls[c].threw
        /\ "ner" \in calls[c].reqs
        /\ calls[c].resp.failed
        /\ calls[c].ner = Null
        /\ calls[c].ranPatterns
        /\ calls[c].result.confidence = 8
        /\ calls[c].result.method = "NER+Patterns"

(***************************************************************************)
(* Properties of the pattern fallback.                                     *)
(***************************************************************************)
\* for each description, the matches of the five families in family order and, within
\* a family, in match order, each without its leading in, at, near or around
Discovered == [d \in Descriptions |->
                  LET all == Flatten(PatternMatches(d)) IN [i \in DOMAIN all |-> StripLead(all[i])]]

\* the places in that order whose candidate is longer than two characters and no stop-word
Surviving == [d \in Descriptions |->
                 {i \in DOMAIN Discovered[d] :
                     Len(Discovered[d][i]) > 2 /\ ToLower(Discovered[d][i]) \notin StopWords}]

(***************************************************************************)
(* C31: the pattern fallback returns the first candidate, in the order the *)
(* matches are discovered (family by family, match by match, leading word  *)
(* stripped), that is longer than two characters and not a stop-word, and  *)
(* no answer when no candidate survives; a later match never displaces an  *)
(* earlier surviving one.                                                  *)
(***************************************************************************)
C31_FirstSurvivingCandidate ==
    \A c \in Calls :
        (calls[c].pc \in {"cacheSet", "done"} /\ calls[c].ranPatterns /\ ~calls[c].threw) =>
            LET d == calls[c].arg IN
            IF Surviving[d] = {}
            THEN /\ calls[c].data.method = "Failed"
                 /\ calls[c].data.confidence = 1
            ELSE LET first == CHOOSE i \in Surviving[d] : \A j \in Surviving[d] : i <= j
                 IN /\ calls[c].data.location = Discovered[d][first]
                    /\ calls[c].data.confidence = 8

\* one call returned Oslo, the third candidate after the dropped La and The; another
\* returned "Austin, TX" of the first family, found ahead of Central Park of the third
C31_Witness ==
    \E c, b \in Calls :
        /\ calls[c].pc = "done" /\ calls[c].ranPatterns /\ ~calls[c].threw
        /\ calls[c].arg = DescLaTheOslo
        /\ calls[c].result.location = <<"O","s","l","o">>
        /\ Discovered[DescLaTheOslo][1] = <<"L","a">>
        /\ Discovered[DescLaTheOslo][2] = wThe
        /\ calls[b].pc = "done" /\ calls[b].ranPatterns /\ ~calls[b].threw
        /\ calls[b].arg = DescFloodAustin
        /\ calls[b].result.location = wAustinTX
        /\ Discovered[DescFloodAustin][2] = wCentralPark

(***************************************************************************)
(* Error handling and cache keys of the services                           *)
(***************************************************************************)

\* every report the service can generate, whatever the disaster and the clock
AnyReport ==
    UNION {{baseReports(a.disasterId, t)[i] : i \in DOMAIN baseReports(a.disasterId, t)} :
              a \in FetchArgs, t \in 0..MaxTime}

\* C32: fetchSocialMediaReports never raises to its caller: whatever the arguments and
\* whether the cache read, the generation or the cache write failed, a finished call
\* has returned a sequence of reports, and the sequence is empty when a step failed.
C32_FetchNeverRaises ==
    \A c \in Calls :
        /\ calls[c].pc \in {"idle", "cacheGet", "cacheSet", "done"}
        /\ calls[c].pc = "done" =>
              /\ DOMAIN calls[c].result = 1..Len(calls[c].result)
              /\ \A i \in DOMAIN calls[c].result : calls[c].result[i] \in AnyReport
              /\ calls[c].threw => calls[c].result = <<>>

\* one call failed before the batch was generated, another at the cache write after a
\* batch of reports was generated, and both returned the empty sequence
C32_Witness ==
    \E c, b \in Calls :
        /\ calls[c].pc = "done" /\ calls[c].threw
        /\ "generate" \notin calls[c].reqs /\ calls[c].result = <<>>
        /\ calls[b].pc = "done" /\ calls[b].threw
        /\ "generate" \in calls[b].reqs /\ Len(calls[b].data) > 0 /\ calls[b].result = <<>>

\* C33: a cache hit of extractLocation returns a result computed for the very
\* description of the call: the entry that is read was written by a call for the same
\* description, descriptions that agree on their first bytes and differ later included.
C33_HitIsForOwnInput ==
    \A c \in Calls :
        (calls[c].pc = "done" /\ calls[c].hit) =>
            calls[calls[c].src].arg = calls[c].arg

\* C34: two fetchSocialMediaReports calls with different (disasterId, tags) never share
\* a cache entry: a batch returned from the cache was written by a call with the same
\* disaster and the same tag list.
C34_BatchIsForOwnArguments ==
    \A c \in Calls :
        (calls[c].pc = "done" /\ calls[c].hit) =>
            calls[calls[c].src].arg = calls[c].arg

(***************************************************************************)
(* Interleaved calls for one key                                           *)
(***************************************************************************)

\* the call c completes its cache write in this step
LocWrites(c) == calls[c].pc = "cacheSet" /\ calls'[c].pc = "done" /\ calls'[c].wrote

\* C35 (as stated): once the cache holds a live answer (confidence 0.8) for a key, no
\* call that is in flight replaces it with a result without an answer (confidence 0.1,
\* method FAILED).
C35_NoDegradedOverwrite ==
    [][\A c \in Calls :
          (LocWrites(c) /\ calls[c].data.confidence = 1) =>
              LET got == GetResult(store, now, LocationCacheKey(calls[c].arg))
              IN ~(got.found /\ got.value.confidence = 8)]_vars

\* C35 (amended): the cache writes are last-write-wins: the cache write of a call
\* replaces the entry of its key with the call's own result, whatever the entry held,
\* so that the key then reads as that result.
C35_LastWriteWins ==
    [][\A c \in Calls :
          LocWrites(c) =>
              GetResult(store', now', LocationCacheKey(calls[c].arg)) = Hit(calls[c].data)]_vars

\* a call cached an answer, and a call in flight at that time then replaced the live
\* entry with its result without an answer, which is what the key reads as
C35_Witness ==
    \E c, b \in Calls :
        /\ c # b /\ LocationCacheKey(calls[c].arg) = LocationCacheKey(calls[b].arg)
        /\ calls[b].pc = "done" /\ calls[b].wrote /\ calls[b].data.confidence = 8
        /\ calls[c].pc = "done" /\ calls[c].wrote /\ calls[c].data.confidence = 1
        /\ lastSet[LocationCacheKey(calls[c].arg)].by = c
        /\ now < DefaultTtl
        /\ GetResult(store, now, LocationCacheKey(calls[c].arg)) = Hit(calls[c].data)

\* the top-level handler of the call c produces its error result in this step
Caught(c) == ~calls[c].threw /\ calls'[c].threw

\* C36: when the top-level handler produces the error result (confidence 0), the
\* result is not written to the cache and the cache is left as it was when the
\* exception occurred: no entry ever holds the handler's result, so the next call for
\* the input computes again.
C36_ErrorResultNotCached ==
    [][\A c \in Calls :
          Caught(c) =>
              /\ calls'[c].result.confidence = 0
              /\ store' = store
              /\ lastSet' = lastSet
              /\ \A e \in store' : e.value # calls'[c].result]_vars

\* the cache write of a call threw after the call had computed a result, the handler
\* returned the error result, and the key still reads as the result another call
\* cached before
C36_Witness ==
    \E c, b \in Calls :
        /\ c # b /\ LocationCacheKey(calls[c].arg) = LocationCacheKey(calls[b].arg)
        /\ calls[c].pc = "done" /\ calls[c].threw /\ calls[c].result.confidence = 0
        /\ calls[c].data # NoResult /\ calls[c].data # calls[b].data
        /\ calls[b].pc = "done" /\ calls[b].wrote
        /\ GetResult(store, now, LocationCacheKey(calls[c].arg)) = Hit(calls[b].data)

\* C37: a failure of the cache write that follows a successful computation does not
\* change what the caller receives: a call of extractLocation that has computed its
\* result returns that result, whether its cache write returned or threw.
C37_WriteFailureKeepsResult ==
    \A c \in Calls :
        (calls[c].pc = "done" /\ calls[c].data # NoResult) =>
            calls[c].result = calls[c].data

(***************************************************************************)
(* The range of the sentiment score: analyzeSentiment on its own, applied  *)
(* to batches that hold reports with the whole of a vocabulary.            *)
(***************************************************************************)

\* "Help, help: safe, rescued; volunteer support and relief"
ReportAllPositive ==
    Report("K", <<"H","e","l","p",","," ","h","e","l","p",":"," ","s","a","f","e",","," ","r","e","s","c","u","e","d",";"," ","v","o","l","u","n","t","e","e","r"," ","s","u","p","p","o","r","t"," ","a","n","d"," ","r","e","l","i","e","f">>,
           "low", Timestamp(1))

\* "Trapped! Danger, emergency: critical, urgent flood and fire, FIRE"
ReportAllNegative ==
    Report("L", <<"T","r","a","p","p","e","d","!"," ","D","a","n","g","e","r",","," ","e","m","e","r","g","e","n","c","y",":"," ","c","r","i","t","i","c","a","l",","," ","u","r","g","e","n","t"," ","f","l","o","o","d"," ","a","n","d"," ","f","i","r","e",","," ","F","I","R","E">>,
           "medium", Timestamp(3))

MaxScoreBatch == 2

ScoreBatches ==
    {b \in UNION {[1..n -> Reports \cup {ReportAllPositive, ReportAllNegative}] :
                     n \in 0..MaxScoreBatch} :
        \A i, j \in DOMAIN b : i # j => b[i] # b[j]}

NextSentiment == \E reports \in ScoreBatches : TriageSentiment(reports)

SpecSentiment == InitTriage /\ [][NextSentiment]_vars

\* C38: for every report, the sentiment_score is an integer from -7 to 6: each of the
\* 6 positive and of the 7 negative words counts at most once however often it occurs.
C38_ScoreRange ==
    calls.op = "analyzeSentiment" =>
        \A i \in DOMAIN calls.result :
            /\ calls.result[i].sentiment_score \in -7..6
            /\ WordsHit(calls.arg[i].content, positiveKeywords) <= 6
            /\ WordsHit(calls.arg[i].content, negativeKeywords) <= 7

\* a batch with both ends of the range: every positive word, one of them twice, scores
\* 6, and every negative word, one of them twice, scores -7
C38_Witness ==
    /\ calls.op = "analyzeSentiment"
    /\ calls.arg = <<ReportAllPositive, ReportAllNegative>>
    /\ calls.result[1].sentiment_score = 6
    /\ calls.result[2].sentiment_score = -7
    /\ OccurrenceCount(ReportAllPositive.content, positiveKeywords) = 7
    /\ OccurrenceCount(ReportAllNegative.content, negativeKeywords) = 8

(***************************************************************************)
(* The App component: the disasters list under loadDisasters and the       *)
(* 'disaster_updated' events, and the data of the selected disaster under  *)
(* selectDisaster.  The server is the source of the responses and of the   *)
(* events: it keeps the disasters, answers a request with what it holds at *)
(* that time, and emits one event per change, delivered in order.          *)
(***************************************************************************)
MaxLoads == 2

MaxSelects == 2

MaxRev == 1

DisasterIds == <<"A", "B">>

\* a disaster, with the revision of its fields
Disaster(i, r) == [id |-> i, rev |-> r]

NoDisaster == [id |-> "", rev |-> 0]

\* what the server returns for the social reports, resources or updates of a disaster
DataFor(disasterId) == [of |-> disasterId]

\* []
NoData == [of |-> ""]

LoadKinds == {"socialReports", "resources", "updates"}

\* GET /disasters: the disasters the server holds, as an array
Snapshot(db) ==
    LET held(i) == \E d \in db : d.id = DisasterIds[i]
        RECURSIVE From(_)
        From(i) == IF i > Len(DisasterIds) THEN <<>>
                   ELSE IF held(i)
                   THEN <<CHOOSE d \in db : d.id = DisasterIds[i]>> \o From(i + 1)
                   ELSE From(i + 1)
    IN From(1)

\* the 'disaster_updated' handler: the new value of disasters
OnDisasterUpdated(prev, data) ==
    IF data.action = "create"
    THEN <<data.disaster>> \o prev
    ELSE IF data.action = "update"
    THEN [i \in DOMAIN prev |->
            IF prev[i].id = data.disaster.id THEN data.disaster ELSE prev[i]]
    ELSE IF data.action = "delete"
    THEN SelectSeq(prev, LAMBDA d : d.id # data.disaster.id)
    ELSE prev

AppFrame == UNCHANGED <<store, now, last, lastSet, hfToken, calls>>

\* the component after its mount effect: empty state, the first loadDisasters in flight
InitApp ==
    /\ store = {}
    /\ now = 0
    /\ last = NoOp
    /\ lastSet = [k \in {} |-> [done |-> FALSE, by |-> 0]]
    /\ hfToken = FALSE
    /\ calls = <<>>
    /\ app = [disasters |-> <<>>, selectedDisaster |-> NoDisaster,
              socialReports |-> NoData, resources |-> NoData, updates |-> NoData,
              loading |-> TRUE, socialLoading |-> FALSE, error |-> "null",
              loads |-> {[n |-> 1, stage |-> "sent", kind |-> "", data |-> <<>>]},
              loadsIssued |-> 1,
              fetches |-> {}, selects |-> 0,
              answered |-> [k \in LoadKinds |-> "none"],
              db |-> {}, created |-> {}, events |-> <<>>]

\* loadDisasters up to its fetch (the Refresh button)
AppLoadDisasters ==
    /\ app.loadsIssued < MaxLoads
    /\ app' = [app EXCEPT !.loading = TRUE, !.error = "null",
                          !.loadsIssued = @ + 1,
                          !.loads = @ \cup {[n |-> app.loadsIssued + 1, stage |-> "sent",
                                             kind |-> "", data |-> <<>>]}]
    /\ AppFrame

\* the server answers a GET /disasters with the disasters it holds, with something
\* that is no array, or with an error status (or the request fails)
ServerAnswer(l, kind) ==
    /\ l \in app.loads /\ l.stage = "sent"
    /\ app' = [app EXCEPT !.loads = (@ \ {l}) \cup
                  {[l EXCEPT !.stage = "answered", !.kind = kind,
                             !.data = IF kind = "array" THEN Snapshot(app.db) ELSE <<>>]}]
    /\ AppFrame

\* loadDisasters from the arrival of its response
AppLoadResponse(l) ==
    /\ l \in app.loads /\ l.stage = "answered"
    /\ app' = [app EXCEPT !.loads = @ \ {l},
                          !.disasters = IF l.kind = "array" THEN l.data ELSE <<>>,
                          !.error = IF l.kind = "array" THEN @
                                    ELSE IF l.kind = "notArray" THEN "Invalid data format"
                                    ELSE "Failed to load disasters",
                          !.loading = FALSE]
    /\ AppFrame

\* the server creates a disaster and emits the event
ServerCreate(i) ==
    /\ i \notin app.created
    /\ app' = [app EXCEPT !.db = @ \cup {Disaster(i, 0)},
                          !.created = @ \cup {i},
                          !.events = Append(@, [action |-> "create", disaster |-> Disaster(i, 0)])]
    /\ AppFrame

\* the server updates a disaster and emits the event
ServerUpdate(d) ==
    /\ d \in app.db /\ d.rev < MaxRev
    /\ app' = [app EXCEPT !.db = (@ \ {d}) \cup {Disaster(d.id, d.rev + 1)},
                          !.events = Append(@, [action |-> "update",
                                                disaster |-> Disaster(d.id, d.rev + 1)])]
    /\ AppFrame

\* the server deletes a disaster and emits the event
ServerDelete(d) ==
    /\ d \in app.db
    /\ app' = [app EXCEPT !.db = @ \ {d},
                          !.events = Append(@, [action |-> "delete", disaster |-> d])]
    /\ AppFrame

\* socket.on('disaster_updated'): the next event arrives
SocketDisasterUpdated ==
    /\ app.events # <<>>
    /\ app' = [app EXCEPT !.events = Tail(@),
                          !.disasters = OnDisasterUpdated(@, Head(app.events))]
    /\ AppFrame

\* selectDisaster up to the fetches of its three loads
AppSelectDisaster(d) ==
    /\ app.selects < MaxSelects
    /\ \E i \in DOMAIN app.disasters : app.disasters[i] = d
    /\ app' = [app EXCEPT !.selectedDisaster = d,
                          !.selects = @ + 1,
                          !.socialLoading = TRUE,
                          !.fetches = @ \cup {[sel |-> app.selects + 1, kind |-> k, id |-> d.id] :
                                                k \in LoadKinds},
                          !.answered = [k \in LoadKinds |-> "pending"]]
    /\ AppFrame

\* loadSocialReports, loadResources or loadUpdates from the arrival of its response:
\* a 2xx answer, another status, or a failed request
AppLoadAnswer(f, outcome) ==
    /\ f \in app.fetches
    /\ LET held == IF outcome = "ok" THEN DataFor(f.id)
                   ELSE IF outcome = "throws" /\ f.kind = "socialReports" THEN NoData
                   ELSE app[f.kind]
           latest == f.sel = app.selects
       IN app' = [app EXCEPT !.fetches = @ \ {f},
                             ![f.kind] = held,
                             !.socialLoading = IF f.kind = "socialReports" THEN FALSE ELSE @,
                             !.answered[f.kind] = IF latest THEN outcome ELSE @]
    /\ AppFrame

NextApp ==
    \/ AppLoadDisasters
    \/ \E l \in app.loads, kind \in {"array", "notArray", "error"} : ServerAnswer(l, kind)
    \/ \E l \in app.loads : AppLoadResponse(l)
    \/ \E i \in {DisasterIds[j] : j \in DOMAIN DisasterIds} : ServerCreate(i)
    \/ \E d \in app.db : ServerUpdate(d)
    \/ \E d \in app.db : ServerDelete(d)
    \/ SocketDisasterUpdated

\* the disasters list: loads, changes on the server and their events
SpecApp == InitApp /\ [][NextApp]_vars

NextSelect ==
    \/ \E l \in app.loads, kind \in {"array", "notArray", "error"} : ServerAnswer(l, kind)
    \/ \E l \in app.loads : AppLoadResponse(l)
    \/ \E i \in {DisasterIds[j] : j \in DOMAIN DisasterIds} : ServerCreate(i)
    \/ SocketDisasterUpdated
    \/ \E i \in DOMAIN app.disasters : AppSelectDisaster(app.disasters[i])
    \/ \E f \in app.fetches, outcome \in {"ok", "notOk", "throws"} : AppLoadAnswer(f, outcome)

\* the selection: the list is filled by the first load and by the create events, and
\* the user selects disasters of the list
SpecSelect == InitApp /\ [][NextSelect]_vars

\* C39: after any interleaving of loadDisasters responses and 'disaster_updated'
\* events, the disasters list holds at most one entry per disaster id.
C39_OneEntryPerId ==
    \A i, j \in DOMAIN app.disasters :
        i # j => app.disasters[i].id # app.disasters[j].id

\* C40: the user selects a disaster and then another while the loads of the first are
\* in flight: when every response has arrived, the social reports, the resources and
\* the official updates held in state are those of the selected disaster; none of the
\* three, its load for the selected disaster answered, holds what a late response
\* brought for the other disaster.
C40_DataOfSelectedDisaster ==
    (app.fetches = {} /\ app.selects > 0) =>
        \A k \in LoadKinds :
            app.answered[k] = "ok" =>
                \A j \in DOMAIN DisasterIds :
                    DisasterIds[j] # app.selectedDisaster.id => app[k] # DataFor(DisasterIds[j])

====
